---- MODULE Spec2Model ----
(***************************************************************************)
(* A model of chat-digest: the transcript parser (parser.py), the          *)
(* importance scorer (importance.py), the temporal tracker (temporal.py),  *)
(* the pattern detectors (patterns.py), the incremental digest             *)
(* (incremental.py), the summary with its optional LLM brief               *)
(* (summarize.py, llm.py) and the code extraction (code_extraction.py).    *)
(*                                                                         *)
(* Text is a sequence of tokens.  A token stands for one character ("SP"   *)
(* a blank, "NL" a newline, "#" a hash) or for an indivisible run of       *)
(* characters (a word, a speaker label, a date).  Scores are kept in       *)
(* tenths (5.0 is 50) and quotients as pairs of integers, so that the      *)
(* arithmetic stays in the integers.                                       *)
(***************************************************************************)
EXTENDS FiniteSets, Integers, Sequences, TLC

VARIABLES
    pc,                 \* which operation the run is in, and where
    text,               \* parse_transcript: the text argument
    filename,           \* parse_transcript: the filename argument
    lines,              \* parse_transcript: text.splitlines()
    idx,                \* parse_transcript: position of the for loop in lines
    messages,           \* parse_transcript: messages
    buffer,             \* parse_transcript: buffer
    current_role,       \* parse_transcript: current_role
    order,              \* parse_transcript: order
    started,            \* parse_transcript: started
    current_timestamp,  \* parse_transcript: current_timestamp
    bufsrc,             \* history: the positions in lines of the buffered lines
    origin,             \* history: per message, the positions in lines of its content
    pass,               \* 1 while the given text is parsed, 2 while the rewritten one is
    first,              \* the messages of pass 1, kept across pass 2
    s_message,          \* score_message_importance: message
    s_score,            \* score_message_importance: the value returned
    s_plain,            \* the value returned for the message with tags=[]
    s_tagged,           \* the value returned for it with tags=["code", "decision"]
    f_messages,         \* filter_important_messages: messages
    min_score,          \* filter_important_messages: min_score
    max_count,          \* filter_important_messages: max_count
    important,          \* filter_important_messages: the list returned
    t_messages,         \* extract_timeline, detect_supersessions: messages
    events,             \* extract_timeline, detect_supersessions: events
    p_messages,         \* the pattern detectors: messages
    p_result,           \* the pattern detectors: the value returned or raised
    m_existing,         \* merge_messages: existing_messages
    m_new,              \* merge_messages: new_messages
    merged,             \* merge_messages: the list returned
    digest_file,        \* append_to_digest_file: the content of digest_path
    a_existing,         \* append_to_digest_file: existing
    a_new,              \* history: new_messages of the last call
    a_returned,         \* append_to_digest_file: the digest returned
    appends,            \* the calls of append_to_digest_file so far
    g_messages,         \* extract_signals, generate_summary: messages
    g_signals,          \* extract_signals: the dict returned
    llm_model,          \* generate_summary: llm_model
    max_brief_words,    \* generate_summary: max_brief_words
    llm_reply,          \* history: what the endpoint did with the request
    llm_calls,          \* the calls of requests.post so far
    g_result,           \* generate_summary: the Summary returned or the exception raised
    c_messages,         \* extract_latest_code_by_file: messages
    c_result,           \* extract_latest_code_by_file: the dict returned
    h_messages,         \* get_conversation_phases: messages
    phases              \* get_conversation_phases: the list returned

parserVars == <<text, filename, lines, idx, messages, buffer, current_role,
                order, started, current_timestamp, bufsrc, origin, pass, first>>

scoreVars == <<s_message, s_score, s_plain, s_tagged>>

filterVars == <<f_messages, min_score, max_count, important>>

timelineVars == <<t_messages, events>>

patternVars == <<p_messages, p_result>>

mergeVars == <<m_existing, m_new, merged>>

appendVars == <<digest_file, a_existing, a_new, a_returned, appends>>

summaryVars == <<g_messages, g_signals, llm_model, max_brief_words, llm_reply,
                 llm_calls, g_result>>

codeVars == <<c_messages, c_result>>

phaseVars == <<h_messages, phases>>

vars == <<pc, parserVars, scoreVars, filterVars, timelineVars, patternVars,
          mergeVars, appendVars, summaryVars, codeVars, phaseVars>>

\* None, as a filename
None == "None"

\* None, as a datetime (current_timestamp)
NoDatetime == [year |-> 0, month |-> 0, day |-> 0]

\* None, as a timestamp string (Message.timestamp)
NoTimestamp == <<>>

----------------------------------------------------------------------------
(* Bounds *)

MaxLines == 4

MaxTags == 2

MaxFilterMessages == 3

MaxTimelineMessages == 3

MaxEvents == 3

MaxEventMessages == 2

MaxPromiseMessages == 4

MaxEscalationMessages == 6

MaxTopicMessages == 3

MaxTimingMessages == 6

MaxPatternMessages == 5

MaxMergeMessages == 2

MaxAppends == 2

MaxSummaryMessages == 2

MaxCodeMessages == 3

MaxPhaseMessages == 4

----------------------------------------------------------------------------
(* Sequences *)

RECURSIVE DropWhileIn(_, _)
DropWhileIn(s, set) ==
    IF s # <<>> /\ Head(s) \in set THEN DropWhileIn(Tail(s), set) ELSE s

RECURSIVE DropLastWhileIn(_, _)
DropLastWhileIn(s, set) ==
    IF s # <<>> /\ s[Len(s)] \in set
    THEN DropLastWhileIn(SubSeq(s, 1, Len(s) - 1), set)
    ELSE s

Contains(s, x) == \E k \in 1..Len(s) : s[k] = x

----------------------------------------------------------------------------
(* str methods used by the parser *)

\* the characters str.strip() and str.rstrip() remove
Whitespace == {"SP", "NL"}

rstrip(s) == DropLastWhileIn(s, Whitespace)

strip(s) == DropWhileIn(DropLastWhileIn(s, Whitespace), Whitespace)

\* "\n".join(buffer)
RECURSIVE join(_)
join(ls) ==
    IF ls = <<>> THEN <<>>
    ELSE IF Len(ls) = 1 THEN ls[1]
    ELSE ls[1] \o <<"NL">> \o join(Tail(ls))

\* the position of the first newline of s, 0 if there is none
RECURSIVE FirstNL(_, _)
FirstNL(s, k) ==
    IF k > Len(s) THEN 0 ELSE IF s[k] = "NL" THEN k ELSE FirstNL(s, k + 1)

\* text.splitlines(): a final newline opens no further line
RECURSIVE splitlines(_)
splitlines(s) ==
    IF s = <<>> THEN <<>>
    ELSE LET n == FirstNL(s, 1) IN
         IF n = 0 THEN <<s>>
         ELSE <<SubSeq(s, 1, n - 1)>> \o splitlines(SubSeq(s, n + 1, Len(s)))

----------------------------------------------------------------------------
(* SPEAKER_PATTERN and ROLE_MAP *)

ROLE_MAP ==
    [k \in {"you said:", "user:", "chatgpt said:", "assistant:", "system:",
            "nyra said:", "nyra:"} |->
        CASE k = "you said:"     -> "user"
          [] k = "user:"         -> "user"
          [] k = "chatgpt said:" -> "assistant"
          [] k = "assistant:"    -> "assistant"
          [] k = "system:"       -> "system"
          [] k = "nyra said:"    -> "assistant"
          [] k = "nyra:"         -> "assistant"]

\* The label tokens of the model.  "uLSer:" is u, U+017F (long s), e, r, colon.
LabelTokens == {"User:", "Assistant:", "system:", "uLSer:"}

\* the simple case folding re.IGNORECASE matches under: long s folds to s
CaseFold(tok) ==
    CASE tok = "User:"      -> "user:"
      [] tok = "Assistant:" -> "assistant:"
      [] tok = "uLSer:"     -> "user:"
      [] OTHER              -> tok

\* str.lower(): long s is already lower case
lower(tok) ==
    CASE tok = "User:"      -> "user:"
      [] tok = "Assistant:" -> "assistant:"
      [] OTHER              -> tok

\* the optional heading prefix (#+\s*)? of both patterns
AfterHeading(s) ==
    IF s # <<>> /\ Head(s) = "#"
    THEN DropWhileIn(DropWhileIn(s, {"#"}), {"SP"})
    ELSE s

\* SPEAKER_PATTERN.match(stripped): the label alone on the line
SpeakerMatch(stripped) ==
    LET rest == AfterHeading(stripped) IN
    /\ Len(rest) = 1
    /\ CaseFold(rest[1]) \in DOMAIN ROLE_MAP

\* speaker.group(2)
SpeakerGroup2(stripped) == AfterHeading(stripped)[1]

\* ROLE_MAP.get(speaker.group(2).lower(), "unknown")
RoleOf(label) ==
    IF lower(label) \in DOMAIN ROLE_MAP THEN ROLE_MAP[lower(label)] ELSE "unknown"

----------------------------------------------------------------------------
(* DATE_PATTERN and the date arithmetic of the date header branch *)

\* The date tokens of the model, one or two per alternative of DATE_PATTERN.
LongDates   == {"January 5, 2026"}
PrefixDates == {"Date: 2026-01-05", "Date: 01/05/2026"}
SlashDates  == {"1/2/26", "3/4/2027", "13/45/2026"}
DateTokens  == LongDates \cup PrefixDates \cup SlashDates

\* DATE_PATTERN.match(stripped): a date after the optional heading, then anything
DateMatch(stripped) ==
    LET rest == AfterHeading(stripped) IN
    /\ rest # <<>>
    /\ rest[1] \in DateTokens

\* date_header.group(2)
DateGroup2(stripped) == AfterHeading(stripped)[1]

\* new_date_str.split('/')
split_slash(tok) ==
    CASE tok = "1/2/26"           -> <<"1", "2", "26">>
      [] tok = "3/4/2027"         -> <<"3", "4", "2027">>
      [] tok = "13/45/2026"       -> <<"13", "45", "2026">>
      [] tok = "Date: 01/05/2026" -> <<"Date: 01", "05", "2026">>
      [] OTHER                    -> <<tok>>

\* '/' in new_date_str
HasSlash(tok) == Len(split_slash(tok)) > 1

\* len(y), for the strings the model splits off
StrLen(s) ==
    CASE s \in {"1", "2", "3", "4"}      -> 1
      [] s \in {"26", "13", "45", "05"}  -> 2
      [] s \in {"2026", "2027"}          -> 4
      [] OTHER                           -> 8

\* int(s); -1 stands for the ValueError of a string that is no number
int(s) ==
    CASE s = "1" -> 1 [] s = "2" -> 2 [] s = "3" -> 3 [] s = "4" -> 4
      [] s = "05" -> 5 [] s = "13" -> 13 [] s = "26" -> 26 [] s = "45" -> 45
      [] s = "2026" -> 2026 [] s = "2027" -> 2027
      [] s = "01" -> 1 [] s = "04" -> 4 [] s = "99" -> 99
      [] OTHER -> -1

DaysInMonth(y, m) ==
    IF m \in {4, 6, 9, 11} THEN 30
    ELSE IF m = 2
         THEN (IF (y % 4 = 0 /\ y % 100 # 0) \/ y % 400 = 0 THEN 29 ELSE 28)
         ELSE 31

\* datetime(y, m, d) raises ValueError unless this holds
ValidDate(y, m, d) ==
    /\ y >= 1 /\ y <= 9999
    /\ m >= 1 /\ m <= 12
    /\ d >= 1 /\ d <= DaysInMonth(y, m)

\* datetime(y, m, d)
datetime(y, m, d) == [year |-> y, month |-> m, day |-> d]

\* datetime.isoformat() of a date at midnight: YYYY-MM-DDT00:00:00
isoformat(dt) == <<dt.year, "-", dt.month, "-", dt.day, "T", 0, ":", 0, ":", 0>>

\* The date header branch: current_timestamp after a line whose group(2) is tok.
\* Every exception leaves current_timestamp as it was.
DateHeader(tok, cur) ==
    IF HasSlash(tok)
    THEN LET parts == split_slash(tok) IN
         IF Len(parts) = 3
         THEN LET m  == parts[1]
                  d  == parts[2]
                  y  == parts[3]
                  yi == IF StrLen(y) = 2 THEN 2000 + int(y) ELSE int(y)
              IN  IF int(y) # -1 /\ int(m) # -1 /\ int(d) # -1
                     /\ ValidDate(yi, int(m), int(d))
                  THEN datetime(yi, int(m), int(d))
                  ELSE cur
         ELSE cur
    ELSE cur

\* The filenames of the model: none, one with a date, one with an impossible date.
Filenames == {None, "chat_01042026.md", "chat_99992026.md"}

\* re.search(r"(\d{2})(\d{2})(\d{4})", filename).groups(), <<>> if no match
FilenameGroups(fn) ==
    CASE fn = "chat_01042026.md" -> <<"01", "04", "2026">>
      [] fn = "chat_99992026.md" -> <<"99", "99", "2026">>
      [] OTHER                   -> <<>>

\* current_timestamp before the loop
FilenameDate(fn) ==
    IF fn # None /\ FilenameGroups(fn) # <<>>
    THEN LET g == FilenameGroups(fn) IN
         IF ValidDate(int(g[3]), int(g[1]), int(g[2]))
         THEN datetime(int(g[3]), int(g[1]), int(g[2]))
         ELSE NoDatetime
    ELSE NoDatetime

----------------------------------------------------------------------------
(* _infer_tags *)

CodeTokens       == {"FENCE"}
QuestionTokens   == {"?"}
ActionTokens     == {"TODO"}
DecisionTokens   == {"will"}
ConstraintTokens == {"must"}

HasAny(content, set) == \E k \in 1..Len(content) : content[k] \in set

_infer_tags(content) ==
    (IF HasAny(content, CodeTokens) THEN <<"code">> ELSE <<>>)
    \o (IF HasAny(content, QuestionTokens) THEN <<"question">> ELSE <<>>)
    \o (IF HasAny(content, ActionTokens) THEN <<"action">> ELSE <<>>)
    \o (IF HasAny(content, DecisionTokens) THEN <<"decision">> ELSE <<>>)
    \o (IF HasAny(content, ConstraintTokens) THEN <<"constraint">> ELSE <<>>)

----------------------------------------------------------------------------
(* parse_transcript *)

\* flush() without the trim
FlushContentUntrimmed(buf) == join(buf)

\* content = "\n".join(buffer).strip()
FlushContent(buf) == strip(join(buf))

\* "if content:" of flush
FlushEmits(buf) == FlushContent(buf) # <<>>

\* messages after flush()
FlushMessages(msgs, buf, role, ord, ts) ==
    IF FlushEmits(buf)
    THEN Append(msgs, [order     |-> ord,
                       role      |-> role,
                       content   |-> FlushContent(buf),
                       tags      |-> _infer_tags(FlushContent(buf)),
                       timestamp |-> IF ts # NoDatetime THEN isoformat(ts)
                                    ELSE NoTimestamp])
    ELSE msgs

\* flush() with "order += 1" outside the "if content:"
FlushOrderAlways(buf, ord) == ord + 1

\* order after flush()
FlushOrder(buf, ord) == IF FlushEmits(buf) THEN ord + 1 ELSE ord

\* the patterns matched against the line as buffered
MatchInputUnstripped(line) == line

\* stripped = line.strip(): what both patterns are matched against
MatchInput(line) == strip(line)

\* a parser that takes the text before the first marker as a message
InitialStartedTrue == TRUE

\* started before the loop
InitialStarted == FALSE

\* order before the loop
InitialOrder == 1

\* lines 31-47: the locals before the loop
Begin ==
    /\ pc = "begin"
    /\ lines' = splitlines(text)
    /\ idx' = 1
    /\ messages' = <<>>
    /\ buffer' = <<>>
    /\ current_role' = "unknown"
    /\ order' = InitialOrder
    /\ started' = InitialStarted
    /\ current_timestamp' = FilenameDate(filename)
    /\ bufsrc' = <<>>
    /\ origin' = <<>>
    /\ pc' = "loop"
    /\ UNCHANGED <<text, filename, pass, first>>
    /\ UNCHANGED <<scoreVars, filterVars, timelineVars, patternVars, mergeVars, appendVars,
                   summaryVars, codeVars, phaseVars>>

\* one iteration of "for raw_line in lines" on a date header
DateLine ==
    /\ pc = "loop"
    /\ idx <= Len(lines)
    /\ LET line     == rstrip(lines[idx])
           stripped == MatchInput(line)
       IN  /\ DateMatch(stripped)
           /\ current_timestamp' = DateHeader(DateGroup2(stripped), current_timestamp)
    /\ idx' = idx + 1
    /\ UNCHANGED <<pc, text, filename, lines, messages, buffer, current_role,
                   order, started, bufsrc, origin, pass, first>>
    /\ UNCHANGED <<scoreVars, filterVars, timelineVars, patternVars, mergeVars, appendVars,
                   summaryVars, codeVars, phaseVars>>

\* one iteration on a speaker marker
SpeakerLine ==
    /\ pc = "loop"
    /\ idx <= Len(lines)
    /\ LET line     == rstrip(lines[idx])
           stripped == MatchInput(line)
       IN  /\ ~DateMatch(stripped)
           /\ SpeakerMatch(stripped)
           /\ IF started
              THEN /\ messages' = FlushMessages(messages, buffer, current_role,
                                                order, current_timestamp)
                   /\ order' = FlushOrder(buffer, order)
                   /\ origin' = IF FlushEmits(buffer)
                                THEN Append(origin, bufsrc) ELSE origin
                   /\ started' = started
              ELSE /\ started' = TRUE
                   /\ UNCHANGED <<messages, order, origin>>
           /\ buffer' = <<>>
           /\ bufsrc' = <<>>
           /\ current_role' = RoleOf(SpeakerGroup2(stripped))
    /\ idx' = idx + 1
    /\ UNCHANGED <<pc, text, filename, lines, current_timestamp, pass, first>>
    /\ UNCHANGED <<scoreVars, filterVars, timelineVars, patternVars, mergeVars, appendVars,
                   summaryVars, codeVars, phaseVars>>

\* one iteration on any other line
ContentLine ==
    /\ pc = "loop"
    /\ idx <= Len(lines)
    /\ LET line     == rstrip(lines[idx])
           stripped == MatchInput(line)
       IN  /\ ~DateMatch(stripped)
           /\ ~SpeakerMatch(stripped)
           /\ IF started
              THEN /\ buffer' = Append(buffer, line)
                   /\ bufsrc' = Append(bufsrc, idx)
              ELSE UNCHANGED <<buffer, bufsrc>>
    /\ idx' = idx + 1
    /\ UNCHANGED <<pc, text, filename, lines, messages, current_role, order,
                   started, current_timestamp, origin, pass, first>>
    /\ UNCHANGED <<scoreVars, filterVars, timelineVars, patternVars, mergeVars, appendVars,
                   summaryVars, codeVars, phaseVars>>

\* lines 94-96: the final flush and the return
Finish ==
    /\ pc = "loop"
    /\ idx > Len(lines)
    /\ IF started
       THEN /\ messages' = FlushMessages(messages, buffer, current_role,
                                         order, current_timestamp)
            /\ order' = FlushOrder(buffer, order)
            /\ origin' = IF FlushEmits(buffer) THEN Append(origin, bufsrc) ELSE origin
            /\ buffer' = <<>>
            /\ bufsrc' = <<>>
       ELSE UNCHANGED <<messages, order, origin, buffer, bufsrc>>
    /\ pc' = "done"
    /\ UNCHANGED <<text, filename, lines, idx, current_role, started,
                   current_timestamp, pass, first>>
    /\ UNCHANGED <<scoreVars, filterVars, timelineVars, patternVars, mergeVars, appendVars,
                   summaryVars, codeVars, phaseVars>>

----------------------------------------------------------------------------
(* importance.py: message contents *)

\* A content is lead blanks, a word, fill letters, q question marks and trail
\* blanks, in this order.  The words hold no blank at either end and no '?'.
Words == {"ok", "OK", "fine"}

\* len(word)
WordLen(word) ==
    CASE word = "ok" -> 2 [] word = "OK" -> 2 [] word = "fine" -> 4

\* word.lower()
WordLower(word) ==
    CASE word = "OK" -> "ok" [] OTHER -> word

\* len(message.content)
len(content) == content.lead + WordLen(content.word) + content.fill + content.q + content.trail

\* message.content.count("?")
count_question(content) == content.q

\* message.content.lower().strip(): the blanks at both ends go, the word is lowered
lower_strip(content) ==
    [lead |-> 0, word |-> WordLower(content.word), fill |-> content.fill,
     q |-> content.q, trail |-> 0]

\* the content that is exactly the string w
Exactly(w) == [lead |-> 0, word |-> w, fill |-> 0, q |-> 0, trail |-> 0]

Min(a, b) == IF a < b THEN a ELSE b

Max(a, b) == IF a > b THEN a ELSE b

----------------------------------------------------------------------------
(* score_message_importance, in tenths *)

BaseScore == 50

RoleWeight(role) ==
    CASE role = "assistant" -> 10
      [] role = "user"      -> 5
      [] role = "system"    -> 3
      [] OTHER              -> 0

tag_weights ==
    [t \in {"code", "decision", "action", "constraint", "question"} |->
        CASE t = "code"       -> 20
          [] t = "decision"   -> 15
          [] t = "action"     -> 10
          [] t = "constraint" -> 12
          [] t = "question"   -> 8]

\* a lookup that finds no tag
TagWeightNone(tag) == 0

\* tag_weights.get(tag, 0.0)
TagWeight(tag) == IF tag \in DOMAIN tag_weights THEN tag_weights[tag] ELSE 0

\* for tag in message.tags: score += ...
RECURSIVE TagSum(_)
TagSum(tags) == IF tags = <<>> THEN 0 ELSE TagWeight(Head(tags)) + TagSum(Tail(tags))

LengthAdjust(n) ==
    IF n < 20 THEN -20
    ELSE IF n < 50 THEN -10
    ELSE IF 100 <= n /\ n <= 500 THEN 10
    ELSE IF n > 1000 THEN 5
    ELSE 0

acknowledgments ==
    {"ok", "okay", "thanks", "thank you", "got it", "sounds good", "perfect",
     "great", "awesome", "yes", "no", "sure", "yep", "nope"}

\* the comparison made on the content as given
IsAcknowledgmentRaw(content) == \E ack \in acknowledgments : Exactly(ack) = content

\* any(ack == content_lower for ack in acknowledgments)
IsAcknowledgment(content) ==
    \E ack \in acknowledgments : Exactly(ack) = lower_strip(content)

AckAdjust(content) == IF IsAcknowledgment(content) THEN -30 ELSE 0

\* min(question_count * 0.3, 1.5) if there is a '?'
QuestionBoost(content) ==
    IF count_question(content) > 0 THEN Min(count_question(content) * 3, 15) ELSE 0

\* a return without the clamp
ClampNone(score) == score

\* max(0.0, min(10.0, score))
Clamp(score) == Max(0, Min(100, score))

score_message_importance(message) ==
    Clamp(BaseScore + RoleWeight(message.role) + TagSum(message.tags)
          + LengthAdjust(len(message.content)) + AckAdjust(message.content)
          + QuestionBoost(message.content))

\* the value of a score variable before the call
Unscored == -1

\* a call of score_message_importance
ScoreMessage ==
    /\ pc = "score"
    /\ s_score' = score_message_importance(s_message)
    /\ pc' = "scored"
    /\ UNCHANGED <<s_message, s_plain, s_tagged>>
    /\ UNCHANGED <<parserVars, filterVars, timelineVars, patternVars, mergeVars, appendVars,
                   summaryVars, codeVars, phaseVars>>

\* test_score_multiple_tags_cumulative: the same role and content scored with
\* no tags and with the tags code and decision
ScoreTagVariants ==
    /\ pc = "scored"
    /\ s_plain' = score_message_importance([s_message EXCEPT !.tags = <<>>])
    /\ s_tagged' = score_message_importance(
                       [s_message EXCEPT !.tags = <<"code", "decision">>])
    /\ pc' = "compared"
    /\ UNCHANGED <<s_message, s_score>>
    /\ UNCHANGED <<parserVars, filterVars, timelineVars, patternVars, mergeVars, appendVars,
                   summaryVars, codeVars, phaseVars>>

----------------------------------------------------------------------------
(* rank_messages_by_importance and filter_important_messages *)

\* x put behind every pair of s whose score is at least that of x
RECURSIVE InsertByScoreDesc(_, _)
InsertByScoreDesc(x, s) ==
    IF s = <<>> THEN <<x>>
    ELSE IF Head(s)[2] >= x[2] THEN <<Head(s)>> \o InsertByScoreDesc(x, Tail(s))
    ELSE <<x>> \o s

\* sorted(scored, key=lambda x: x[1], reverse=True): stable
RECURSIVE SortByScoreDesc(_)
SortByScoreDesc(s) ==
    IF s = <<>> THEN <<>>
    ELSE InsertByScoreDesc(s[Len(s)], SortByScoreDesc(SubSeq(s, 1, Len(s) - 1)))

\* m put behind every message of s whose order is at most that of m
RECURSIVE InsertByOrder(_, _)
InsertByOrder(m, s) ==
    IF s = <<>> THEN <<m>>
    ELSE IF Head(s).order <= m.order THEN <<Head(s)>> \o InsertByOrder(m, Tail(s))
    ELSE <<m>> \o s

\* sorted(important, key=lambda m: m.order): stable
RECURSIVE SortByOrder(_)
SortByOrder(s) ==
    IF s = <<>> THEN <<>>
    ELSE InsertByOrder(s[Len(s)], SortByOrder(SubSeq(s, 1, Len(s) - 1)))

rank_messages_by_importance(msgs) ==
    SortByScoreDesc([k \in 1..Len(msgs) |-> <<msgs[k], score_message_importance(msgs[k])>>])

\* [msg for msg, score in ranked if score >= min_score]
RECURSIVE AtLeast(_, _)
AtLeast(ranked, floor) ==
    IF ranked = <<>> THEN <<>>
    ELSE (IF Head(ranked)[2] >= floor THEN <<Head(ranked)[1]>> ELSE <<>>)
         \o AtLeast(Tail(ranked), floor)

\* None, as a max_count
NoCount == -1

\* "if max_count and len(important) > max_count": 0 is as false as None
Caps(cap, n) == cap # NoCount /\ cap # 0 /\ n > cap

\* a cap applied after the re-sort by order
filter_important_messages_cap_last(msgs, floor, cap) ==
    LET ranked == rank_messages_by_importance(msgs)
        kept   == SortByOrder(AtLeast(ranked, floor))
    IN  IF Caps(cap, Len(kept)) THEN SubSeq(kept, 1, cap) ELSE kept

filter_important_messages(msgs, floor, cap) ==
    LET ranked == rank_messages_by_importance(msgs)
        kept   == AtLeast(ranked, floor)
        capped == IF Caps(cap, Len(kept)) THEN SubSeq(kept, 1, cap) ELSE kept
    IN  SortByOrder(capped)

\* a call of filter_important_messages
FilterImportant ==
    /\ pc = "filter"
    /\ important' = filter_important_messages(f_messages, min_score, max_count)
    /\ pc' = "filtered"
    /\ UNCHANGED <<f_messages, min_score, max_count>>
    /\ UNCHANGED <<parserVars, scoreVars, timelineVars, patternVars, mergeVars, appendVars,
                   summaryVars, codeVars, phaseVars>>

----------------------------------------------------------------------------
(* temporal.py: TimelineEvent, extract_timeline, detect_supersessions *)

\* None, as a superseded_by
NoOrder == -1

\* content[:200]; a token counts as one character
Truncate(content, n) == SubSeq(content, 1, Min(Len(content), n))

\* an event that is current whatever supersedes it
TimelineEventCurrent(message_order, event_type, content, timestamp, superseded_by) ==
    [message_order |-> message_order,
     event_type    |-> event_type,
     content       |-> content,
     timestamp     |-> timestamp,
     superseded_by |-> superseded_by,
     is_current    |-> TRUE]

\* TimelineEvent.__init__
TimelineEvent(message_order, event_type, content, timestamp, superseded_by) ==
    [message_order |-> message_order,
     event_type    |-> event_type,
     content       |-> content,
     timestamp     |-> timestamp,
     superseded_by |-> superseded_by,
     is_current    |-> (superseded_by = NoOrder)]

\* the events of one message, in the order of the four tests
EventsOf(msg) ==
    (IF Contains(msg.tags, "decision")
     THEN <<TimelineEvent(msg.order, "decision", Truncate(msg.content, 200),
                          msg.timestamp, NoOrder)>>
     ELSE <<>>)
    \o (IF Contains(msg.tags, "action")
        THEN <<TimelineEvent(msg.order, "action", Truncate(msg.content, 200),
                             msg.timestamp, NoOrder)>>
        ELSE <<>>)
    \o (IF Contains(msg.tags, "question")
        THEN <<TimelineEvent(msg.order, "question", Truncate(msg.content, 200),
                             msg.timestamp, NoOrder)>>
        ELSE <<>>)
    \o (IF Contains(msg.tags, "code")
        THEN <<TimelineEvent(msg.order, "code", <<"Code block added">>,
                             msg.timestamp, NoOrder)>>
        ELSE <<>>)

RECURSIVE extract_timeline(_)
extract_timeline(msgs) ==
    IF msgs = <<>> THEN <<>> ELSE EventsOf(Head(msgs)) \o extract_timeline(Tail(msgs))

supersession_keywords ==
    {"actually", "instead", "changed my mind", "let's use", "switch to",
     "no wait", "correction", "update:", "revised", "new plan"}

\* str.lower() of the content tokens of the timeline messages
TokenLower(tok) ==
    CASE tok = "Actually" -> "actually"
      [] tok = "Use Flask" -> "use flask"
      [] OTHER -> tok

\* any(keyword in content_lower for keyword in supersession_keywords); a
\* keyword lies within one token
HasKeyword(content) ==
    \E k \in 1..Len(content) : TokenLower(content[k]) \in supersession_keywords

\* next((m for m in messages if m.order == order), None): the position of the
\* first message of that order, 0 for None
RECURSIVE LookupFrom(_, _, _)
LookupFrom(msgs, ord, k) ==
    IF k > Len(msgs) THEN 0
    ELSE IF msgs[k].order = ord THEN k
    ELSE LookupFrom(msgs, ord, k + 1)

\* whether the event at position j of evs makes an earlier decision superseded
Qualifies(evs, msgs, j) ==
    LET at == LookupFrom(msgs, evs[j].message_order, 1) IN
    at # 0 /\ HasKeyword(msgs[at].content)

\* a grouping that keeps the events of every type
DecisionPositionsAll(evs) == 1..Len(evs)

\* the positions in evs of the decision events
DecisionPositions(evs) == { k \in 1..Len(evs) : evs[k].event_type = "decision" }

\* the later decision events that qualify, for the decision event at position i
LaterQualifying(evs, msgs, i) ==
    { j \in DecisionPositions(evs) : j > i /\ Qualifies(evs, msgs, j) }

\* an inner loop without the break: the last qualifying event is the one left
SupersederLast(evs, msgs, i) ==
    IF LaterQualifying(evs, msgs, i) = {} THEN 0
    ELSE CHOOSE j \in LaterQualifying(evs, msgs, i) :
            \A j2 \in LaterQualifying(evs, msgs, i) : j2 <= j

\* the inner loop with its break: the first qualifying later decision event,
\* 0 if the loop ends without one
Superseder(evs, msgs, i) ==
    IF LaterQualifying(evs, msgs, i) = {} THEN 0
    ELSE CHOOSE j \in LaterQualifying(evs, msgs, i) :
            \A j2 \in LaterQualifying(evs, msgs, i) : j <= j2

\* an outer loop over the events of every type
detect_supersessions_any_type(evs, msgs) ==
    [i \in 1..Len(evs) |->
        IF Superseder(evs, msgs, i) # 0
        THEN [evs[i] EXCEPT
                 !.superseded_by = evs[Superseder(evs, msgs, i)].message_order,
                 !.is_current = FALSE]
        ELSE evs[i]]

\* The events after the outer loop.  The inner loop reads message_order and
\* the messages only, both of which the loop leaves alone.
detect_supersessions(evs, msgs) ==
    [i \in 1..Len(evs) |->
        IF evs[i].event_type = "decision" /\ Superseder(evs, msgs, i) # 0
        THEN [evs[i] EXCEPT
                 !.superseded_by = evs[Superseder(evs, msgs, i)].message_order,
                 !.is_current = FALSE]
        ELSE evs[i]]

\* events = extract_timeline(messages)
ExtractTimeline ==
    /\ pc = "extract"
    /\ events' = extract_timeline(t_messages)
    /\ pc' = "extracted"
    /\ UNCHANGED t_messages
    /\ UNCHANGED <<parserVars, scoreVars, filterVars, patternVars, mergeVars, appendVars,
                   summaryVars, codeVars, phaseVars>>

\* events = detect_supersessions(events, messages)
DetectSupersessions ==
    /\ pc = "extracted"
    /\ events' = detect_supersessions(events, t_messages)
    /\ pc' = "detected"
    /\ UNCHANGED t_messages
    /\ UNCHANGED <<parserVars, scoreVars, filterVars, patternVars, mergeVars, appendVars,
                   summaryVars, codeVars, phaseVars>>

\* the positions of S in ascending order
InOrder(S) ==
    [r \in 1..Cardinality(S) |->
        CHOOSE k \in S : Cardinality({ j \in S : j <= k }) = r]

\* a TimelineEvent constructed by a caller, for the next message order
ConstructTimelineEvent ==
    /\ pc = "events"
    /\ Len(events) < MaxEvents
    /\ \E event_type \in {"decision", "action"}, superseded_by \in {NoOrder, 7} :
           events' = Append(events,
                            TimelineEvent(Len(events) + 1, event_type, <<"Use Flask">>,
                                          NoTimestamp, superseded_by))
    /\ UNCHANGED <<pc, t_messages>>
    /\ UNCHANGED <<parserVars, scoreVars, filterVars, patternVars, mergeVars,
                   appendVars,
                   summaryVars, codeVars, phaseVars>>

\* extract_timeline(messages) called while earlier events are alive
CallExtractTimeline ==
    /\ pc = "events"
    /\ Len(events) + Len(extract_timeline(t_messages)) <= MaxEvents
    /\ events' = events \o extract_timeline(t_messages)
    /\ UNCHANGED <<pc, t_messages>>
    /\ UNCHANGED <<parserVars, scoreVars, filterVars, patternVars, mergeVars,
                   appendVars,
                   summaryVars, codeVars, phaseVars>>

\* detect_supersessions(evs, messages) called on a list evs of some of the
\* events alive, the events at the positions S
CallDetectSupersessions ==
    /\ pc = "events"
    /\ \E S \in SUBSET (1..Len(events)) :
           LET at  == InOrder(S)
               res == detect_supersessions([r \in 1..Len(at) |-> events[at[r]]],
                                           t_messages)
           IN  events' = [k \in 1..Len(events) |->
                             IF k \in S
                             THEN res[Cardinality({ j \in S : j <= k })]
                             ELSE events[k]]
    /\ UNCHANGED <<pc, t_messages>>
    /\ UNCHANGED <<parserVars, scoreVars, filterVars, patternVars, mergeVars,
                   appendVars,
                   summaryVars, codeVars, phaseVars>>

----------------------------------------------------------------------------
(* patterns.py: what a call ends with *)

\* a call that has not ended
Pending == [outcome |-> "pending", value |-> <<>>]

\* a call that ended with "return v"
Returned(v) == [outcome |-> "returned", value |-> v]

\* a call that ended with an exception of class e
Raised(e) == [outcome |-> "raised", value |-> e]

\* None, as an Optional[Pattern]
NoPattern == [pattern_type |-> "None"]

\* Pattern.__init__; the description is text built from the other fields
Pattern(pattern_type, frequency, confidence, first_occurrence, last_occurrence, evidence) ==
    [pattern_type     |-> pattern_type,
     frequency        |-> frequency,
     confidence       |-> confidence,
     first_occurrence |-> first_occurrence,
     last_occurrence  |-> last_occurrence,
     evidence         |-> evidence]

----------------------------------------------------------------------------
(* The numbers of patterns.py: a quotient n / d is the pair <<n, d>>, d > 0 *)

Frac(n, d) == <<n, d>>

FracLt(a, b) == a[1] * b[2] < b[1] * a[2]

FracLe(a, b) == a[1] * b[2] <= b[1] * a[2]

FracEq(a, b) == a[1] * b[2] = b[1] * a[2]

\* min(a, b)
FracMin(a, b) == IF FracLt(b, a) THEN b ELSE a

\* max(a, b)
FracMax(a, b) == IF FracLt(a, b) THEN b ELSE a

RECURSIVE Sum(_)
Sum(s) == IF s = <<>> THEN 0 ELSE Head(s) + Sum(Tail(s))

----------------------------------------------------------------------------
(* datetime.fromisoformat, weekday and the days between two datetimes *)

\* str.replace('Z', '+00:00'); a timestamp of the model has its Z, if any,
\* as the token behind the seconds
ReplaceZ(ts) ==
    [k \in 1..Len(ts) |-> IF k = 12 /\ ts[k] = "Z" THEN "+00:00" ELSE ts[k]]

\* whether s reads YYYY-MM-DDTHH:MM:SS, with or without an offset
IsIsoText(s) ==
    /\ Len(s) \in {11, 12}
    /\ s[2] = "-" /\ s[4] = "-" /\ s[6] = "T" /\ s[8] = ":" /\ s[10] = ":"
    /\ ValidDate(s[1], s[3], s[5])
    /\ s[7] <= 23 /\ s[9] <= 59 /\ s[11] <= 59
    /\ Len(s) = 12 => s[12] = "+00:00"

\* None, as the datetime of a timestamp that fromisoformat rejects
NoParse == [year |-> 0, month |-> 0, day |-> 0, aware |-> FALSE]

\* datetime.fromisoformat(s); NoParse stands for the ValueError
fromisoformat(s) ==
    IF IsIsoText(s)
    THEN [year |-> s[1], month |-> s[3], day |-> s[5], aware |-> (Len(s) = 12)]
    ELSE NoParse

\* the days of the years before y
DaysBeforeYear(y) ==
    (y - 1) * 365 + ((y - 1) \div 4) - ((y - 1) \div 100) + ((y - 1) \div 400)

\* the days of the months of y before m
RECURSIVE DaysBeforeMonth(_, _)
DaysBeforeMonth(y, m) ==
    IF m <= 1 THEN 0 ELSE DaysInMonth(y, m - 1) + DaysBeforeMonth(y, m - 1)

\* datetime.toordinal()
toordinal(dt) == DaysBeforeYear(dt.year) + DaysBeforeMonth(dt.year, dt.month) + dt.day

\* datetime.weekday(): 0 is Monday
weekday(dt) == (toordinal(dt) + 6) % 7

\* (a - b).days of two datetimes at midnight
DaysBetween(a, b) == toordinal(a) - toordinal(b)

\* the datetimes of the timestamps of a list that are set and parse, in order
RECURSIVE ParsedTimestamps(_)
ParsedTimestamps(stamps) ==
    IF stamps = <<>> THEN <<>>
    ELSE (IF Head(stamps) # NoTimestamp
             /\ fromisoformat(ReplaceZ(Head(stamps))) # NoParse
          THEN <<fromisoformat(ReplaceZ(Head(stamps)))>>
          ELSE <<>>)
         \o ParsedTimestamps(Tail(stamps))

----------------------------------------------------------------------------
(* detect_promise_break_cycles *)

\* every event taken for a superseded one
superseded_of_all(supersessions) == supersessions

\* superseded = [e for e in supersessions if e.superseded_by is not None]
superseded_of(supersessions) ==
    SelectSeq(supersessions, LAMBDA e : e.superseded_by # NoOrder)

\* "timestamps[i] - timestamps[i-1]" raises TypeError when one datetime has
\* an offset and the other has none
SubtractionRaises(timestamps) ==
    \E i \in 2..Len(timestamps) : timestamps[i].aware # timestamps[i - 1].aware

\* time_diffs: the positive day differences of neighbours, from position i on
RECURSIVE time_diffs_from(_, _)
time_diffs_from(timestamps, i) ==
    IF i > Len(timestamps) THEN <<>>
    ELSE (IF DaysBetween(timestamps[i], timestamps[i - 1]) > 0
          THEN <<DaysBetween(timestamps[i], timestamps[i - 1])>>
          ELSE <<>>)
         \o time_diffs_from(timestamps, i + 1)

\* line 92 reads sup.original_content of each of supersessions[:5]: an
\* AttributeError when one of them has no such attribute
EvidenceRaises(supersessions) ==
    \E k \in 1..Min(5, Len(supersessions)) :
        "original_content" \notin DOMAIN supersessions[k]

\* line 92 when every event has the attribute
EvidenceOf(supersessions) ==
    [k \in 1..Min(5, Len(supersessions)) |->
        Truncate(supersessions[k].original_content, 100) \o <<"...">>]

\* lines 96-102, to the hundredth below: with n differences of sum S and sum
\* of squares Q, 1.0 - std_dev / avg_days >= c / 100 exactly when
\* (100 - c)^2 * S^2 >= 10000 * (n * Q - S^2)
ConsistencyConfidence(diffs) ==
    IF Len(diffs) > 1
    THEN LET n == Len(diffs)
             S == Sum(diffs)
             Q == Sum([k \in 1..n |-> diffs[k] * diffs[k]])
             below == { c \in 0..100 :
                          (100 - c) * (100 - c) * S * S >= 10000 * (n * Q - S * S) }
             raw == IF below = {} THEN 0
                    ELSE CHOOSE c \in below : \A c2 \in below : c2 <= c
         IN  Frac(Min(98, Max(70, raw)), 100)
    ELSE Frac(75, 100)

detect_promise_break_cycles(msgs) ==
    LET timeline_events == extract_timeline(msgs)
        supersessions   == detect_supersessions(timeline_events, msgs)
        superseded      == superseded_of(supersessions)
        timestamps      ==
            ParsedTimestamps([k \in 1..Len(superseded) |-> superseded[k].timestamp])
        time_diffs      == time_diffs_from(timestamps, 2)
    IN  IF Len(superseded) < 3 THEN Returned(NoPattern)
        ELSE IF Len(timestamps) < 3 THEN Returned(NoPattern)
        ELSE IF SubtractionRaises(timestamps) THEN Raised("TypeError")
        ELSE IF time_diffs = <<>> THEN Returned(NoPattern)
        ELSE IF EvidenceRaises(supersessions) THEN Raised("AttributeError")
        ELSE Returned(Pattern("promise_break_cycle",
                              Len(superseded),
                              ConsistencyConfidence(time_diffs),
                              timestamps[1],
                              timestamps[Len(timestamps)],
                              EvidenceOf(supersessions)))

\* a call of detect_promise_break_cycles
DetectPromiseBreakCycles ==
    /\ pc = "promise"
    /\ p_result' = detect_promise_break_cycles(p_messages)
    /\ pc' = "promise_done"
    /\ UNCHANGED p_messages
    /\ UNCHANGED <<parserVars, scoreVars, filterVars, timelineVars, mergeVars,
                   appendVars,
                   summaryVars, codeVars, phaseVars>>

----------------------------------------------------------------------------
(* detect_escalation_pattern *)

\* [msg for msg in messages if ... msg.importance_score > 0]
scored_messages_of(msgs) == SelectSeq(msgs, LAMBDA m : m.importance_score > 0)

\* window_size = max(1, len(scored_messages) // 4)
window_size_of(n) == Max(1, n \div 4)

\* windows: the mean score of each slice of window_size messages, the last
\* slice being what is left
RECURSIVE windows_of(_, _)
windows_of(scored, size) ==
    IF scored = <<>> THEN <<>>
    ELSE LET w == SubSeq(scored, 1, Min(size, Len(scored))) IN
         <<Frac(Sum([k \in 1..Len(w) |-> w[k].importance_score]), Len(w))>>
         \o windows_of(SubSeq(scored, Len(w) + 1, Len(scored)), size)

\* sum(1 for i in range(1, len(windows)) if windows[i] > windows[i-1])
increases_of(windows) ==
    Cardinality({ i \in 2..Len(windows) : FracLt(windows[i - 1], windows[i]) })

\* a trend that half of the steps make
TrendTooWeakAtHalf(trend_strength) == trend_strength[1] * 10 < 5 * trend_strength[2]

\* trend_strength < 0.6
TrendTooWeak(trend_strength) == trend_strength[1] * 10 < 6 * trend_strength[2]

\* pct_increase < 10, pct_increase being ((last - first) / first) * 100 for a
\* positive first and 0 otherwise
IncreaseTooSmall(first_mean, last_mean) ==
    \/ first_mean[1] <= 0
    \/ 10 * (last_mean[1] * first_mean[2] - first_mean[1] * last_mean[2])
           < last_mean[2] * first_mean[1]

detect_escalation_pattern(msgs) ==
    LET scored_messages == scored_messages_of(msgs)
        windows         == windows_of(scored_messages,
                                      window_size_of(Len(scored_messages)))
        trend_strength  == Frac(increases_of(windows), Len(windows) - 1)
    IN  IF Len(scored_messages) < 5 THEN Returned(NoPattern)
        ELSE IF Len(windows) < 3 THEN Returned(NoPattern)
        ELSE IF TrendTooWeak(trend_strength) THEN Returned(NoPattern)
        ELSE IF IncreaseTooSmall(windows[1], windows[Len(windows)])
             THEN Returned(NoPattern)
        ELSE Returned(Pattern("escalation", Len(windows), trend_strength,
                              NoParse, NoParse, <<>>))

\* a call of detect_escalation_pattern
DetectEscalationPattern ==
    /\ pc = "escalation"
    /\ p_result' = detect_escalation_pattern(p_messages)
    /\ pc' = "escalation_done"
    /\ UNCHANGED p_messages
    /\ UNCHANGED <<parserVars, scoreVars, filterVars, timelineVars, mergeVars,
                   appendVars,
                   summaryVars, codeVars, phaseVars>>

----------------------------------------------------------------------------
(* detect_recurring_topics *)

\* the pairs (tag, msg.order) in the order the two loops visit them
RECURSIVE tag_occurrences(_)
tag_occurrences(msgs) ==
    IF msgs = <<>> THEN <<>>
    ELSE [k \in 1..Len(Head(msgs).tags) |-> <<Head(msgs).tags[k], Head(msgs).order>>]
         \o tag_occurrences(Tail(msgs))

\* the keys of tag_counts in insertion order: each tag where it is met first
RECURSIVE tags_in_order(_, _)
tags_in_order(occ, seen) ==
    IF occ = <<>> THEN <<>>
    ELSE IF Head(occ)[1] \in seen THEN tags_in_order(Tail(occ), seen)
    ELSE <<Head(occ)[1]>> \o tags_in_order(Tail(occ), seen \cup {Head(occ)[1]})

\* tag_messages[tag]
message_orders_of(occ, tag) ==
    LET own == SelectSeq(occ, LAMBDA o : o[1] = tag) IN
    [k \in 1..Len(own) |-> own[k][2]]

\* max(message_orders) - min(message_orders)
span_of(orders) ==
    LET set == { orders[k] : k \in 1..Len(orders) } IN
    (CHOOSE hi \in set : \A x \in set : x <= hi)
    - (CHOOSE lo \in set : \A x \in set : lo <= x)

\* span > (total_messages * 0.5)
SpansEnough(span, total_messages) == 2 * span > total_messages

\* min(0.95, 0.70 + (count / total_messages))
TopicConfidence(count, total_messages) ==
    FracMin(Frac(95, 100), Frac(70 * total_messages + 100 * count, 100 * total_messages))

\* the patterns appended for the tags of a list of keys
RECURSIVE topic_patterns_of(_, _, _)
topic_patterns_of(tags, occ, total_messages) ==
    IF tags = <<>> THEN <<>>
    ELSE LET tag    == Head(tags)
             orders == message_orders_of(occ, tag)
             count  == Len(orders)
         IN  (IF count >= 5 /\ SpansEnough(span_of(orders), total_messages)
              THEN <<Pattern("recurring_topic", count,
                             TopicConfidence(count, total_messages),
                             NoParse, NoParse, <<tag>>)>>
              ELSE <<>>)
             \o topic_patterns_of(Tail(tags), occ, total_messages)

detect_recurring_topics(msgs) ==
    LET occ == tag_occurrences(msgs) IN
    Returned(topic_patterns_of(tags_in_order(occ, {}), occ, Len(msgs)))

\* a call of detect_recurring_topics
DetectRecurringTopics ==
    /\ pc = "topics"
    /\ p_result' = detect_recurring_topics(p_messages)
    /\ pc' = "topics_done"
    /\ UNCHANGED p_messages
    /\ UNCHANGED <<parserVars, scoreVars, filterVars, timelineVars, mergeVars,
                   appendVars,
                   summaryVars, codeVars, phaseVars>>

----------------------------------------------------------------------------
(* detect_timing_patterns *)

\* the timestamps of the messages tagged decision or constraint
RECURSIVE timing_stamps(_)
timing_stamps(msgs) ==
    IF msgs = <<>> THEN <<>>
    ELSE (IF Head(msgs).timestamp # NoTimestamp
             /\ (Contains(Head(msgs).tags, "decision")
                 \/ Contains(Head(msgs).tags, "constraint"))
          THEN <<Head(msgs).timestamp>>
          ELSE <<>>)
         \o timing_stamps(Tail(msgs))

\* day_counts[day]
day_count(days, day) == Cardinality({ k \in 1..Len(days) : days[k] = day })

\* day_counts.most_common(1)[0][0]: of the days of the highest count the one
\* met first
most_common_day(days) ==
    LET at == CHOOSE k \in 1..Len(days) :
                  /\ \A j \in 1..Len(days) :
                         day_count(days, days[j]) <= day_count(days, days[k])
                  /\ \A j \in 1..(k - 1) :
                         day_count(days, days[j]) < day_count(days, days[k])
    IN  days[at]

\* a cut that a day with exactly half of the timestamps does not pass
BelowHalfOrEqual(count, total) == 2 * count <= total

\* percentage < 50, percentage being (count / total) * 100
BelowHalf(count, total) == 2 * count < total

day_names ==
    <<"Monday", "Tuesday", "Wednesday", "Thursday", "Friday", "Saturday", "Sunday">>

detect_timing_patterns(msgs) ==
    LET timestamps == ParsedTimestamps(timing_stamps(msgs))
        days       == [k \in 1..Len(timestamps) |-> weekday(timestamps[k])]
        total      == Len(timestamps)
    IN  IF total < 5 THEN Returned(NoPattern)
        ELSE LET count == day_count(days, most_common_day(days)) IN
             IF BelowHalf(count, total) THEN Returned(NoPattern)
             ELSE Returned(Pattern("timing_pattern", count,
                                   FracMin(Frac(95, 100), Frac(count, total)),
                                   NoParse, NoParse,
                                   <<day_names[most_common_day(days) + 1]>>))

\* a call of detect_timing_patterns
DetectTimingPatterns ==
    /\ pc = "timing"
    /\ p_result' = detect_timing_patterns(p_messages)
    /\ pc' = "timing_done"
    /\ UNCHANGED p_messages
    /\ UNCHANGED <<parserVars, scoreVars, filterVars, timelineVars, mergeVars,
                   appendVars,
                   summaryVars, codeVars, phaseVars>>

----------------------------------------------------------------------------
(* detect_all_patterns *)

\* [p] if the detector returned a pattern, [] if it returned None
IfPattern(result) == IF result.value # NoPattern THEN <<result.value>> ELSE <<>>

\* a sort that moves a pattern ahead of the earlier ones of its confidence
StaysBehindLower(p, q) == FracLt(p.confidence, q.confidence)

\* whether p, appended after q, stays behind q in the sorted list
StaysBehind(p, q) == FracLe(p.confidence, q.confidence)

\* p put behind every pattern of s that it stays behind
RECURSIVE InsertByConfidenceDesc(_, _)
InsertByConfidenceDesc(p, s) ==
    IF s = <<>> THEN <<p>>
    ELSE IF StaysBehind(p, Head(s))
         THEN <<Head(s)>> \o InsertByConfidenceDesc(p, Tail(s))
    ELSE <<p>> \o s

\* patterns.sort(key=lambda p: p.confidence, reverse=True): stable
RECURSIVE SortByConfidenceDesc(_)
SortByConfidenceDesc(s) ==
    IF s = <<>> THEN <<>>
    ELSE InsertByConfidenceDesc(s[Len(s)],
                                SortByConfidenceDesc(SubSeq(s, 1, Len(s) - 1)))

\* the list before the sort; only read when no detector raised
emitted_patterns(msgs) ==
    IfPattern(detect_promise_break_cycles(msgs))
    \o IfPattern(detect_escalation_pattern(msgs))
    \o detect_recurring_topics(msgs).value
    \o IfPattern(detect_timing_patterns(msgs))

\* no call is within a try: what a detector raises, detect_all_patterns raises
detect_all_patterns(msgs) ==
    IF detect_promise_break_cycles(msgs).outcome = "raised"
    THEN detect_promise_break_cycles(msgs)
    ELSE Returned(SortByConfidenceDesc(emitted_patterns(msgs)))

\* a call of detect_all_patterns
DetectAllPatterns ==
    /\ pc = "patterns"
    /\ p_result' = detect_all_patterns(p_messages)
    /\ pc' = "patterns_done"
    /\ UNCHANGED p_messages
    /\ UNCHANGED <<parserVars, scoreVars, filterVars, timelineVars, mergeVars,
                   appendVars,
                   summaryVars, codeVars, phaseVars>>

----------------------------------------------------------------------------
(* incremental.py: merge_messages *)

\* [msg for msg in new_messages if msg.order not in existing_orders], the
\* set of orders being that of the existing messages throughout the loop
new_kept(existing_messages, new_messages) ==
    LET existing_orders ==
            { existing_messages[k].order : k \in 1..Len(existing_messages) }
    IN  SelectSeq(new_messages, LAMBDA msg : msg.order \notin existing_orders)

merge_messages(existing_messages, new_messages) ==
    SortByOrder(existing_messages \o new_kept(existing_messages, new_messages))

\* a call of merge_messages
MergeMessages ==
    /\ pc = "merge"
    /\ merged' = merge_messages(m_existing, m_new)
    /\ pc' = "merged"
    /\ UNCHANGED <<m_existing, m_new>>
    /\ UNCHANGED <<parserVars, scoreVars, filterVars, timelineVars, patternVars,
                   appendVars,
                   summaryVars, codeVars, phaseVars>>

----------------------------------------------------------------------------
(* incremental.py: load_existing_digest, create_incremental_digest and     *)
(* append_to_digest_file.  A digest is its thread and its messages; the    *)
(* summary is made anew from the messages by each call.                    *)

\* None, as a ThreadMetadata
NoThread == [id |-> "None", title |-> <<>>]

\* None, as an Optional[ThreadDigest]
NoDigest == [kind |-> "None", thread |-> NoThread, messages |-> <<>>]

\* ThreadDigest(thread=..., messages=..., summary=...)
ThreadDigest(thread, msgs) == [kind |-> "digest", thread |-> thread, messages |-> msgs]

\* digest_path when no file is there
MissingFile == [kind |-> "missing", thread |-> NoThread, messages |-> <<>>]

\* digest_path when the file holds no digest
GarbageFile == [kind |-> "garbage", thread |-> NoThread, messages |-> <<>>]

\* load_existing_digest: None for a missing file and for one that does not
\* hold a digest
load_existing_digest(file) == IF file.kind = "digest" THEN file ELSE NoDigest

\* content.strip().split("\n", 1)[0]
FirstLine(content) ==
    LET s == strip(content) IN
    IF FirstNL(s, 1) = 0 THEN s ELSE SubSeq(s, 1, FirstNL(s, 1) - 1)

\* infer_title
infer_title(msgs) ==
    IF msgs = <<>> THEN <<"Untitled Thread">>
    ELSE LET users == SelectSeq(msgs, LAMBDA m : m.role = "user" /\ strip(m.content) # <<>>)
             candidate == IF users # <<>> THEN users[1] ELSE msgs[1]
             line == FirstLine(candidate.content)
         IN  IF Len(line) > 60 THEN SubSeq(line, 1, 60) \o <<"...">> ELSE line

\* str(digest_path.stem)
DigestStem == "digest"

create_incremental_digest(existing_digest, new_messages) ==
    ThreadDigest(existing_digest.thread,
                 merge_messages(existing_digest.messages, new_messages))

\* the digest that append_to_digest_file writes and returns
appended_digest(existing, new_messages) ==
    IF existing # NoDigest
    THEN create_incremental_digest(existing, new_messages)
    ELSE ThreadDigest([id |-> DigestStem, title |-> infer_title(new_messages)],
                      new_messages)

\* the lines of the transcripts appended
AppendLines == { <<"User:">>, <<"Assistant:">>, <<"Hello">>, <<"1/2/26">> }

\* lines 96-99: existing is loaded and parse_transcript(new_transcript) called
AppendBegin ==
    /\ pc = "append"
    /\ appends < MaxAppends
    /\ \E n \in 0..MaxLines : \E ls \in [1..n -> AppendLines] : text' = join(ls)
    /\ filename' = None
    /\ a_existing' = load_existing_digest(digest_file)
    /\ pc' = "begin"
    /\ UNCHANGED <<lines, idx, messages, buffer, current_role, order, started,
                   current_timestamp, bufsrc, origin, pass, first>>
    /\ UNCHANGED <<digest_file, a_new, a_returned, appends>>
    /\ UNCHANGED <<scoreVars, filterVars, timelineVars, patternVars, mergeVars,
                   summaryVars, codeVars, phaseVars>>

\* lines 101-136, parse_transcript having returned: the digest is made,
\* written and returned, and the locals of the parser are no more
AppendFinish ==
    /\ pc = "done"
    /\ a_new' = messages
    /\ a_returned' = appended_digest(a_existing, messages)
    /\ digest_file' = appended_digest(a_existing, messages)
    /\ appends' = appends + 1
    /\ text' = <<>>
    /\ lines' = <<>>
    /\ idx' = 1
    /\ messages' = <<>>
    /\ buffer' = <<>>
    /\ current_role' = "unknown"
    /\ order' = 1
    /\ started' = FALSE
    /\ current_timestamp' = NoDatetime
    /\ bufsrc' = <<>>
    /\ origin' = <<>>
    /\ pc' = "append"
    /\ UNCHANGED <<filename, pass, first, a_existing>>
    /\ UNCHANGED <<scoreVars, filterVars, timelineVars, patternVars, mergeVars,
                   summaryVars, codeVars, phaseVars>>

----------------------------------------------------------------------------
(* summarize.py: extract_signals.  A line of a summarised message is a     *)
(* sequence of word tokens set apart by "SP".                              *)

\* str.lower() of the word tokens of the summarised messages
SignalLower(tok) ==
    CASE tok = "Will"  -> "will"
      [] tok = "TODO"  -> "todo"
      [] tok = "Hello" -> "hello"
      [] OTHER         -> tok

\* the search strings of extract_signals that lie within a lowered word
NeedlesIn(low) ==
    CASE low = "will"  -> {"will"}
      [] low = "todo"  -> {"todo"}
      [] low = "must"  -> {"must"}
      [] low = "reset" -> {"set"}
      [] OTHER         -> {}

\* needle in lowered: within one word, or "need to" across a blank, where any
\* word that starts with "to" will do
InLowered(line, needle) ==
    \/ \E k \in 1..Len(line) : needle \in NeedlesIn(SignalLower(line[k]))
    \/ /\ needle = "need to"
       /\ \E k \in 1..(Len(line) - 2) :
              /\ SignalLower(line[k]) = "need"
              /\ line[k + 1] = "SP"
              /\ SignalLower(line[k + 2]) \in {"to", "todo"}

\* line.endswith("?")
IsOpenQuestion(line) == line[Len(line)] \in {"why?"}

\* "- [" in line or "todo" in lowered
IsAction(line) ==
    \/ \E k \in 1..(Len(line) - 2) :
           line[k] = "-" /\ line[k + 1] = "SP" /\ line[k + 2] \in {"[x]"}
    \/ InLowered(line, "todo")

\* any(token in lowered for token in ["decide", "decision", "will", "choose", "set"])
IsDecision(line) ==
    \E token \in {"decide", "decision", "will", "choose", "set"} : InLowered(line, token)

\* any(token in lowered for token in ["must", "ensure", "require", "need to"])
IsConstraint(line) ==
    \E token \in {"must", "ensure", "require", "need to"} : InLowered(line, token)

\* [ln.strip() for ln in text.splitlines() if ln.strip()]
_lines(content) ==
    LET ls == splitlines(content) IN
    SelectSeq([k \in 1..Len(ls) |-> strip(ls[k])], LAMBDA ln : ln # <<>>)

\* the loop of _dedupe from an item on, seen being the set built so far
RECURSIVE dedupe_from(_, _)
dedupe_from(items, seen) ==
    IF items = <<>> THEN <<>>
    ELSE IF Head(items) \in seen THEN dedupe_from(Tail(items), seen)
    ELSE <<Head(items)>> \o dedupe_from(Tail(items), seen \cup {Head(items)})

\* a _dedupe that drops nothing
_dedupe_keeps_all(items) == items

_dedupe(items) == dedupe_from(items, {})

\* the lines the two loops of extract_signals go through
RECURSIVE signal_lines(_)
signal_lines(msgs) ==
    IF msgs = <<>> THEN <<>>
    ELSE _lines(Head(msgs).content) \o signal_lines(Tail(msgs))

extract_signals(msgs) ==
    LET ls == signal_lines(msgs) IN
    [decisions      |-> _dedupe(SelectSeq(ls, IsDecision)),
     actions        |-> _dedupe(SelectSeq(ls, IsAction)),
     open_questions |-> _dedupe(SelectSeq(ls, IsOpenQuestion)),
     constraints    |-> _dedupe(SelectSeq(ls, IsConstraint))]

\* None, as a dict of signals
NoSignals == [signals |-> "None"]

\* a call of extract_signals
ExtractSignals ==
    /\ pc = "signals"
    /\ g_signals' = extract_signals(g_messages)
    /\ pc' = "signals_done"
    /\ UNCHANGED <<g_messages, llm_model, max_brief_words, llm_reply, llm_calls, g_result>>
    /\ UNCHANGED <<parserVars, scoreVars, filterVars, timelineVars, patternVars,
                   mergeVars, appendVars, codeVars, phaseVars>>

----------------------------------------------------------------------------
(* code_extraction.py.  The token "FENCE" is three backticks, the token    *)
(* "FENCEpython" three backticks and the language name after them.         *)

\* match.group(1) of code_pattern for the fence tokens, None for the bare fence
FenceLanguage ==
    [tok \in {"FENCE", "FENCEpython"} |-> IF tok = "FENCEpython" THEN "python" ELSE None]

\* the position of the first fence token of content from k on, 0 if there is none
RECURSIVE FirstFence(_, _)
FirstFence(content, k) ==
    IF k > Len(content) THEN 0
    ELSE IF content[k] \in DOMAIN FenceLanguage THEN k
    ELSE FirstFence(content, k + 1)

\* the position after the last "[.!?]\s+" of s, 1 if there is none
RECURSIVE LastSentenceStart(_, _)
LastSentenceStart(s, k) ==
    IF k < 2 THEN 1
    ELSE IF s[k] \in Whitespace /\ s[k - 1] \in {"Done.", "why?"}
         THEN Len(s) - Len(DropWhileIn(SubSeq(s, k, Len(s)), Whitespace)) + 1
    ELSE LastSentenceStart(s, k - 1)

\* the context of the block that starts at position p: the last sentence of
\* msg.content[:start_pos].strip(), <<>> for None
ContextBefore(content, p) ==
    LET context_text == strip(SubSeq(content, 1, p - 1)) IN
    SubSeq(context_text, LastSentenceStart(context_text, Len(context_text)),
           Len(context_text))

\* CodeBlock.__init__
CodeBlock(content, language, context, message_order) ==
    [content       |-> strip(content),
     language      |-> IF language = None THEN "text" ELSE language,
     context       |-> context,
     message_order |-> message_order]

\* code_pattern.finditer(msg.content) from position k on: a fence token with
\* the newline after it opens a block, the next fence token closes it
RECURSIVE blocks_from(_, _)
blocks_from(msg, k) ==
    IF k >= Len(msg.content) THEN <<>>
    ELSE LET close == FirstFence(msg.content, k + 2) IN
         IF /\ msg.content[k] \in DOMAIN FenceLanguage
            /\ msg.content[k + 1] = "NL"
            /\ close # 0
         THEN <<CodeBlock(SubSeq(msg.content, k + 2, close - 1),
                          FenceLanguage[msg.content[k]],
                          ContextBefore(msg.content, k), msg.order)>>
              \o blocks_from(msg, close + 1)
         ELSE blocks_from(msg, k + 1)

RECURSIVE extract_code_blocks(_)
extract_code_blocks(msgs) ==
    IF msgs = <<>> THEN <<>>
    ELSE (IF Contains(Head(msgs).tags, "code") THEN blocks_from(Head(msgs), 1) ELSE <<>>)
         \o extract_code_blocks(Tail(msgs))

\* match.group(1) of file_mention_pattern for the tokens that hold a file name
FileNameIn ==
    [tok \in {"app.py:", "main.py"} |-> IF tok = "app.py:" THEN "app.py" ELSE "main.py"]

\* file_mention_pattern.search(block.context): the first file name, None if
\* there is none or no context
FileMention(context) ==
    LET at == { k \in 1..Len(context) : context[k] \in DOMAIN FileNameIn } IN
    IF at = {} THEN None
    ELSE FileNameIn[context[CHOOSE k \in at : \A j \in at : k <= j]]

\* "if x" for a message order: 0 is false
Truthy(n) == n # 0

\* block.message_order and held.message_order and block.message_order > held.message_order
Replaces(block, held) ==
    /\ Truthy(block.message_order)
    /\ Truthy(held.message_order)
    /\ block.message_order > held.message_order

\* the body of the loop over the blocks, from the dict built so far
RECURSIVE file_code_map_from(_, _)
file_code_map_from(blocks, map) ==
    IF blocks = <<>> THEN map
    ELSE LET block    == Head(blocks)
             file_name == FileMention(block.context)
         IN  IF /\ file_name # None
                /\ (file_name \notin DOMAIN map \/ Replaces(block, map[file_name]))
             THEN file_code_map_from(Tail(blocks),
                      [f \in DOMAIN map \cup {file_name} |->
                          IF f = file_name THEN block ELSE map[f]])
             ELSE file_code_map_from(Tail(blocks), map)

\* the empty dict
NoFiles == [f \in {} |-> None]

extract_latest_code_by_file(msgs) ==
    file_code_map_from(extract_code_blocks(msgs), NoFiles)

\* None, as a code_summary
NoCodeSummary == [total_blocks |-> 0]

get_code_summary(msgs) ==
    LET blocks   == extract_code_blocks(msgs)
        file_map == extract_latest_code_by_file(msgs)
        langs    == { blocks[k].language : k \in 1..Len(blocks) }
    IN  [total_blocks |-> Len(blocks),
         unique_files |-> Cardinality(DOMAIN file_map),
         languages    |-> [l \in langs |->
                              Cardinality({ k \in 1..Len(blocks) : blocks[k].language = l })],
         files        |-> file_map,
         all_blocks   |-> blocks]

\* a call of extract_latest_code_by_file
ExtractLatestCodeByFile ==
    /\ pc = "code"
    /\ c_result' = extract_latest_code_by_file(c_messages)
    /\ pc' = "code_done"
    /\ UNCHANGED c_messages
    /\ UNCHANGED <<parserVars, scoreVars, filterVars, timelineVars, patternVars,
                   mergeVars, appendVars, summaryVars, phaseVars>>

----------------------------------------------------------------------------
(* summarize.py: build_rule_based_brief, OllamaClient.generate,            *)
(* _try_llm_brief and generate_summary                                     *)

\* sep.join(items)
RECURSIVE JoinWith(_, _)
JoinWith(items, sep) ==
    IF items = <<>> THEN <<>>
    ELSE IF Len(items) = 1 THEN items[1]
    ELSE items[1] \o sep \o JoinWith(Tail(items), sep)

\* text.split(): the maximal runs of tokens that are not whitespace
RECURSIVE split(_)
split(s) ==
    LET t    == DropWhileIn(s, Whitespace)
        rest == DropWhileIn(t, { t[k] : k \in 1..Len(t) } \ Whitespace)
    IN  IF t = <<>> THEN <<>>
        ELSE <<SubSeq(t, 1, Len(t) - Len(rest))>> \o split(rest)

_truncate_words(s, limit) ==
    LET words == split(s) IN
    IF Len(words) <= limit THEN s
    ELSE JoinWith(SubSeq(words, 1, limit), <<"SP">>) \o <<"SP", "...">>

\* the first line of the first message that has one, <<>> for ""
_first_nonempty_line(msgs) ==
    IF signal_lines(msgs) = <<>> THEN <<>> ELSE signal_lines(msgs)[1]

\* the line of a bucket: the label, a blank and "; ".join(items)
BriefLine(label, items) ==
    IF items = <<>> THEN <<>>
    ELSE << <<label, "SP">> \o JoinWith(items, <<";", "SP">>) >>

NoSignalsBrief ==
    <<"Brief:", "SP", "Transcript", "SP", "contained", "SP", "no", "SP",
      "extractable", "SP", "signals;", "SP", "review", "SP", "raw", "SP", "messages.">>

build_rule_based_brief(msgs, signals, limit) ==
    LET context_line == _first_nonempty_line(msgs)
        brief_lines == (IF context_line # <<>>
                  THEN << <<"Context:", "SP">> \o context_line >> ELSE <<>>)
                 \o BriefLine("Decisions:", signals.decisions)
                 \o BriefLine("Actions:", signals.actions)
                 \o BriefLine("Open questions:", signals.open_questions)
                 \o BriefLine("Constraints:", signals.constraints)
    IN  _truncate_words(join(IF brief_lines = <<>> THEN <<NoSignalsBrief>> ELSE brief_lines), limit)

\* What the endpoint does with the request, and the body of a 2xx answer.  A
\* body that is not JSON makes response.json() raise an exception that is a
\* RequestException in the newer releases of requests and only a ValueError
\* in the older ones.
LlmReplies ==
    {"timeout", "connection_error", "status_500", "not_json", "not_json_old_requests",
     "json_list", "response_number", "response_missing", "response_blank",
     "response_text"}

\* OllamaClient.generate: requests.post, raise_for_status, response.json()
\* and (data.get("response") or "").strip()
generate(reply) ==
    CASE reply \in {"timeout", "connection_error", "status_500", "not_json"}
             -> Raised("RequestException")
      [] reply = "not_json_old_requests" -> Raised("ValueError")
      [] reply \in {"json_list", "response_number"} -> Raised("AttributeError")
      [] reply = "response_missing" -> Returned(<<>>)
      [] reply = "response_blank" -> Returned(strip(<<"SP", "NL">>))
      [] reply = "response_text" -> Returned(strip(<<"SP", "Handoff", "SP", "brief", "NL">>))

\* _try_llm_brief: the try / except around client.generate(prompt); <<>> for
\* None.  The prompt is sent and read by nothing.
_try_llm_brief(reply) ==
    IF generate(reply) = Raised("RequestException") THEN Returned(<<>>)
    ELSE generate(reply)

\* Summary(...) as generate_summary makes it
Summary(brief, signals, code_summary) ==
    [brief          |-> brief,
     decisions      |-> signals.decisions,
     actions        |-> signals.actions,
     open_questions |-> signals.open_questions,
     constraints    |-> signals.constraints,
     code_summary   |-> IF code_summary.total_blocks > 0 THEN code_summary
                        ELSE NoCodeSummary]

\* signals or extract_signals(messages)
signals_of(msgs, signals) == IF signals = NoSignals THEN extract_signals(msgs) ELSE signals

\* generate_summary up to "if llm_model", and to its end without a model
GenerateSummary ==
    /\ pc = "summary"
    /\ IF llm_model \in {None, ""}
       THEN /\ g_result' = Returned(Summary(
                   build_rule_based_brief(g_messages, signals_of(g_messages, g_signals),
                                          max_brief_words),
                   signals_of(g_messages, g_signals), get_code_summary(g_messages)))
            /\ pc' = "summary_done"
       ELSE /\ g_result' = g_result
            /\ pc' = "posting"
    /\ UNCHANGED <<g_messages, g_signals, llm_model, max_brief_words, llm_reply, llm_calls>>
    /\ UNCHANGED <<parserVars, scoreVars, filterVars, timelineVars, patternVars,
                   mergeVars, appendVars, codeVars, phaseVars>>

\* the call of _try_llm_brief and the rest of generate_summary after it
TryLlmBrief ==
    /\ pc = "posting"
    /\ \E reply \in LlmReplies :
          /\ llm_reply' = reply
          /\ llm_calls' = llm_calls + 1
          /\ LET signals     == signals_of(g_messages, g_signals)
                 brief       == build_rule_based_brief(g_messages, signals, max_brief_words)
                 maybe_brief == _try_llm_brief(reply)
             IN  g_result' =
                     IF maybe_brief.outcome = "raised" THEN maybe_brief
                     ELSE Returned(Summary(IF maybe_brief.value # <<>>
                                           THEN maybe_brief.value ELSE brief,
                                           signals, get_code_summary(g_messages)))
    /\ pc' = "summary_done"
    /\ UNCHANGED <<g_messages, g_signals, llm_model, max_brief_words>>
    /\ UNCHANGED <<parserVars, scoreVars, filterVars, timelineVars, patternVars,
                   mergeVars, appendVars, codeVars, phaseVars>>

----------------------------------------------------------------------------
(* temporal.py: get_conversation_phases *)

\* None, as a current_phase
NoPhase == "None"

\* a phase that ends at the message that opens the next one
PhaseDictEndAtNext(type, phase_start, i) ==
    [type |-> type, start |-> phase_start, end |-> i, message_count |-> i - phase_start]

\* the dict appended for the phase that message i closes (len(messages) for
\* the final phase)
PhaseDict(type, phase_start, i) ==
    [type |-> type, start |-> phase_start, end |-> i - 1, message_count |-> i - phase_start]

\* the branch of the if / elif / else chain a message takes, named by the
\* phase that branch opens
BranchOf(msg) ==
    IF Contains(msg.tags, "question") \/ Contains(msg.tags, "decision") THEN "planning"
    ELSE IF Contains(msg.tags, "code") THEN "implementation"
    ELSE "discussion"

\* the inner test of the branch: current_phase != ... in the first two,
\* current_phase not in ["planning", "implementation", "discussion"] in the last
OpensPhase(branch, current_phase) ==
    IF branch = "discussion"
    THEN current_phase \notin {"planning", "implementation", "discussion"}
    ELSE current_phase # branch

\* the loop from index i on, and the final phase after it
RECURSIVE phases_from(_, _, _, _, _)
phases_from(msgs, i, sofar, current_phase, phase_start) ==
    IF i = Len(msgs)
    THEN IF current_phase # NoPhase
         THEN Append(sofar, PhaseDict(current_phase, phase_start, Len(msgs)))
         ELSE sofar
    ELSE IF OpensPhase(BranchOf(msgs[i + 1]), current_phase)
         THEN phases_from(msgs, i + 1,
                          IF current_phase # NoPhase
                          THEN Append(sofar, PhaseDict(current_phase, phase_start, i))
                          ELSE sofar,
                          BranchOf(msgs[i + 1]), i)
         ELSE phases_from(msgs, i + 1, sofar, current_phase, phase_start)

get_conversation_phases(msgs) == phases_from(msgs, 0, <<>>, NoPhase, 0)

\* a call of get_conversation_phases
GetConversationPhases ==
    /\ pc = "phases"
    /\ phases' = get_conversation_phases(h_messages)
    /\ pc' = "phases_done"
    /\ UNCHANGED h_messages
    /\ UNCHANGED <<parserVars, scoreVars, filterVars, timelineVars, patternVars,
                   mergeVars, appendVars, summaryVars, codeVars>>

----------------------------------------------------------------------------
(* Writing a parsed transcript back and parsing it again *)

\* a speaker-marker line for a role: a label that ROLE_MAP.get maps to it
MarkerFor(role) == CHOOSE tok \in LabelTokens : RoleOf(tok) = role

\* the marker line of each message followed by its content
RECURSIVE Rewrite(_)
Rewrite(msgs) ==
    IF msgs = <<>> THEN <<>>
    ELSE <<MarkerFor(msgs[1].role), "NL">> \o msgs[1].content
         \o (IF Len(msgs) > 1 THEN <<"NL">> ELSE <<>>) \o Rewrite(Tail(msgs))

\* parse_transcript called on the rewritten text, without a filename
Reparse ==
    /\ pc = "done"
    /\ pass = 1
    /\ first' = messages
    /\ text' = Rewrite(messages)
    /\ filename' = None
    /\ pass' = 2
    /\ pc' = "begin"
    /\ UNCHANGED <<lines, idx, messages, buffer, current_role, order, started,
                   current_timestamp, bufsrc, origin>>
    /\ UNCHANGED <<scoreVars, filterVars, timelineVars, patternVars, mergeVars, appendVars,
                   summaryVars, codeVars, phaseVars>>

----------------------------------------------------------------------------
(* The transcripts of the model *)

TextLines ==
    { <<>>,
      <<"Hello">>,
      <<"Hi there">>,
      <<"SP", "User:", "SP", "Hello", "SP">>,
      <<"User:">>,
      <<"Assistant:">>,
      <<"SP", "#", "SP", "uLSer:", "SP">>,
      <<"1/2/26">> }

DateLines ==
    { <<"User:">>,
      <<"#", "system:">>,
      <<"Hello">>,
      <<"1/2/26">>,
      <<"#", "3/4/2027", "SP", "Hello">>,
      <<"13/45/2026">>,
      <<"January 5, 2026">>,
      <<"Date: 2026-01-05">>,
      <<"Date: 01/05/2026">> }

\* the texts of at most MaxLines lines of a pool
IsTranscript(t, pool) == \E n \in 0..MaxLines : \E ls \in [1..n -> pool] : t = join(ls)

\* the variables of an operation that is not running
ParserIdle ==
    /\ text = <<>>
    /\ filename = None
    /\ lines = <<>>
    /\ idx = 1
    /\ messages = <<>>
    /\ buffer = <<>>
    /\ current_role = "unknown"
    /\ order = 1
    /\ started = FALSE
    /\ current_timestamp = NoDatetime
    /\ bufsrc = <<>>
    /\ origin = <<>>
    /\ pass = 1
    /\ first = <<>>

NoContent == [lead |-> 0, word |-> "fine", fill |-> 0, q |-> 0, trail |-> 0]

ScoreIdle ==
    /\ s_message = [order |-> 0, role |-> "unknown", content |-> NoContent, tags |-> <<>>]
    /\ s_score = Unscored
    /\ s_plain = Unscored
    /\ s_tagged = Unscored

FilterIdle ==
    /\ f_messages = <<>>
    /\ min_score = 0
    /\ max_count = NoCount
    /\ important = <<>>

TimelineIdle ==
    /\ t_messages = <<>>
    /\ events = <<>>

PatternsIdle ==
    /\ p_messages = <<>>
    /\ p_result = Pending

MergeIdle ==
    /\ m_existing = <<>>
    /\ m_new = <<>>
    /\ merged = <<>>

AppendIdle ==
    /\ digest_file = MissingFile
    /\ a_existing = NoDigest
    /\ a_new = <<>>
    /\ a_returned = NoDigest
    /\ appends = 0

SummaryIdle ==
    /\ g_messages = <<>>
    /\ g_signals = NoSignals
    /\ llm_model = None
    /\ max_brief_words = 180
    /\ llm_reply = None
    /\ llm_calls = 0
    /\ g_result = Pending

CodeIdle ==
    /\ c_messages = <<>>
    /\ c_result = NoFiles

PhasesIdle ==
    /\ h_messages = <<>>
    /\ phases = <<>>

ParserInit(pool, names) ==
    /\ pc = "begin"
    /\ IsTranscript(text, pool)
    /\ filename \in names
    /\ lines = <<>>
    /\ idx = 1
    /\ messages = <<>>
    /\ buffer = <<>>
    /\ current_role = "unknown"
    /\ order = 1
    /\ started = FALSE
    /\ current_timestamp = NoDatetime
    /\ bufsrc = <<>>
    /\ origin = <<>>
    /\ pass = 1
    /\ first = <<>>
    /\ ScoreIdle /\ FilterIdle /\ TimelineIdle /\ PatternsIdle /\ MergeIdle /\ AppendIdle
    /\ SummaryIdle /\ CodeIdle /\ PhasesIdle

Init == ParserInit(TextLines, {None, "chat_01042026.md"})

Next ==
    \/ Begin
    \/ DateLine
    \/ SpeakerLine
    \/ ContentLine
    \/ Finish
    \/ Reparse

Spec == Init /\ [][Next]_vars

InitDates == ParserInit(DateLines, Filenames)

SpecDates == InitDates /\ [][Next]_vars

----------------------------------------------------------------------------
(* The messages scored *)

Roles == {"user", "assistant", "system", "unknown"}

TagPool == {"code", "decision", "action", "constraint", "question", "other"}

TagLists == UNION { [1..n -> TagPool] : n \in 0..MaxTags }

\* lengths on both sides of 20, 50, 100, 500 and 1000
Contents ==
    [lead : {0, 1}, word : Words, fill : {0, 17, 47, 97, 498, 998},
     q : {0, 1, 5, 6}, trail : {0, 100}]

InitScore ==
    /\ pc = "score"
    /\ s_message \in [order : {1}, role : Roles, content : Contents, tags : TagLists]
    /\ s_score = Unscored
    /\ s_plain = Unscored
    /\ s_tagged = Unscored
    /\ ParserIdle /\ FilterIdle /\ TimelineIdle /\ PatternsIdle /\ MergeIdle /\ AppendIdle
    /\ SummaryIdle /\ CodeIdle /\ PhasesIdle

NextScore ==
    \/ ScoreMessage
    \/ ScoreTagVariants

SpecScore == InitScore /\ [][NextScore]_vars

----------------------------------------------------------------------------
(* The lists filtered *)

\* four messages of the scores 9.0, 7.5, 7.5 and 1.0
FilterBodies ==
    { [content |-> [lead |-> 0, word |-> "fine", fill |-> 100, q |-> 0, trail |-> 0],
       tags |-> <<"code">>],
      [content |-> [lead |-> 0, word |-> "fine", fill |-> 60, q |-> 0, trail |-> 0],
       tags |-> <<"decision">>],
      [content |-> [lead |-> 0, word |-> "fine", fill |-> 61, q |-> 0, trail |-> 0],
       tags |-> <<"decision">>],
      [content |-> [lead |-> 0, word |-> "ok", fill |-> 0, q |-> 0, trail |-> 0],
       tags |-> <<>>] }

\* the orders 0..n-1 in any arrangement
Arrangements(n) == { f \in [1..n -> 0..(n - 1)] : \A a, b \in 1..n : a # b => f[a] # f[b] }

IsFilterList(msgs) ==
    \E n \in 0..MaxFilterMessages :
        \E ord \in Arrangements(n) : \E body \in [1..n -> FilterBodies] :
            msgs = [k \in 1..n |-> [order   |-> ord[k],
                                    role    |-> "assistant",
                                    content |-> body[k].content,
                                    tags    |-> body[k].tags]]

InitFilter ==
    /\ pc = "filter"
    /\ IsFilterList(f_messages)
    /\ min_score \in {0, 60, 75, 100}
    /\ max_count \in {NoCount, 0, 1, 2}
    /\ important = <<>>
    /\ ParserIdle /\ ScoreIdle /\ TimelineIdle /\ PatternsIdle /\ MergeIdle /\ AppendIdle
    /\ SummaryIdle /\ CodeIdle /\ PhasesIdle

NextFilter == FilterImportant

SpecFilter == InitFilter /\ [][NextFilter]_vars

----------------------------------------------------------------------------
(* The timelines *)

TimelineBodies ==
    [content : { <<"Use Flask">>, <<"Actually", "use FastAPI">> },
     tags    : { <<>>, <<"decision">>, <<"code", "decision">>, <<"question">> }]

IsTimelineList(msgs) ==
    \E n \in 0..MaxTimelineMessages :
        \E ord \in Arrangements(n) : \E body \in [1..n -> TimelineBodies] :
            msgs = [k \in 1..n |-> [order     |-> ord[k] + 1,
                                    role      |-> "assistant",
                                    content   |-> body[k].content,
                                    tags      |-> body[k].tags,
                                    timestamp |-> NoTimestamp]]

InitTimeline ==
    /\ pc = "extract"
    /\ IsTimelineList(t_messages)
    /\ events = <<>>
    /\ ParserIdle /\ ScoreIdle /\ FilterIdle /\ PatternsIdle /\ MergeIdle /\ AppendIdle
    /\ SummaryIdle /\ CodeIdle /\ PhasesIdle

NextTimeline ==
    \/ ExtractTimeline
    \/ DetectSupersessions

SpecTimeline == InitTimeline /\ [][NextTimeline]_vars

----------------------------------------------------------------------------
(* The events made in any sequence *)

IsEventList(msgs) ==
    \E n \in 0..MaxEventMessages :
        \E body \in [1..n -> { <<"Use Flask">>, <<"Actually", "use FastAPI">> }] :
            msgs = [k \in 1..n |-> [order     |-> k,
                                    role      |-> "assistant",
                                    content   |-> body[k],
                                    tags      |-> <<"decision">>,
                                    timestamp |-> NoTimestamp]]

InitEvents ==
    /\ pc = "events"
    /\ IsEventList(t_messages)
    /\ events = <<>>
    /\ ParserIdle /\ ScoreIdle /\ FilterIdle /\ PatternsIdle /\ MergeIdle /\ AppendIdle
    /\ SummaryIdle /\ CodeIdle /\ PhasesIdle

NextEvents ==
    \/ ConstructTimelineEvent
    \/ CallExtractTimeline
    \/ CallDetectSupersessions

SpecEvents == InitEvents /\ [][NextEvents]_vars

----------------------------------------------------------------------------
(* The messages given to the pattern detectors *)

\* the timestamp of midnight of a day of January 2026; the 2nd is a Friday
Stamp(day) == isoformat(datetime(2026, 1, day))

\* the same with a Z behind it
StampZ(day) == Stamp(day) \o <<"Z">>

PMessage(ord, content, tags, timestamp, importance_score) ==
    [order            |-> ord,
     role             |-> "user",
     content          |-> content,
     tags             |-> tags,
     timestamp        |-> timestamp,
     importance_score |-> importance_score]

OtherIdle == ParserIdle /\ ScoreIdle /\ FilterIdle /\ TimelineIdle /\ MergeIdle /\ AppendIdle

\* decisions and changes of mind, with and without a timestamp that parses
PromiseBodies ==
    { [content |-> <<"Use Flask">>, tags |-> <<"decision">>, timestamp |-> Stamp(2)],
      [content |-> <<"Actually", "use FastAPI">>, tags |-> <<"decision">>,
       timestamp |-> Stamp(9)],
      [content |-> <<"Actually", "use FastAPI">>, tags |-> <<"decision">>,
       timestamp |-> Stamp(16)],
      [content |-> <<"Actually", "use FastAPI">>, tags |-> <<"decision">>,
       timestamp |-> StampZ(9)],
      [content |-> <<"Actually", "use FastAPI">>, tags |-> <<"decision">>,
       timestamp |-> NoTimestamp],
      [content |-> <<"Actually", "use FastAPI">>, tags |-> <<"decision">>,
       timestamp |-> <<"soon">>],
      [content |-> <<"Use Flask">>, tags |-> <<"question">>, timestamp |-> Stamp(2)] }

IsPromiseList(msgs) ==
    \E n \in 0..MaxPromiseMessages : \E body \in [1..n -> PromiseBodies] :
        msgs = [k \in 1..n |-> PMessage(k, body[k].content, body[k].tags,
                                        body[k].timestamp, 50)]

InitPromise ==
    /\ pc = "promise"
    /\ IsPromiseList(p_messages)
    /\ p_result = Pending
    /\ OtherIdle /\ SummaryIdle /\ CodeIdle /\ PhasesIdle

NextPromise == DetectPromiseBreakCycles

SpecPromise == InitPromise /\ [][NextPromise]_vars

\* no score, 5.0, 5.5 and 6.0
EscalationScores == {0, 50, 55, 60}

\* ten messages of the scores 5.0, 5.5, ... 9.5
LinearExample ==
    [k \in 1..10 |-> PMessage(k - 1, <<"Message">>, <<"decision">>, NoTimestamp,
                              50 + 5 * (k - 1))]

\* ten messages of the score 7.0
FlatExample ==
    [k \in 1..10 |-> PMessage(k - 1, <<"Message">>, <<"decision">>, NoTimestamp, 70)]

IsEscalationList(msgs) ==
    \/ msgs \in {LinearExample, FlatExample}
    \/ \E n \in 0..MaxEscalationMessages : \E score \in [1..n -> EscalationScores] :
          msgs = [k \in 1..n |-> PMessage(k, <<"Message">>, <<>>, NoTimestamp, score[k])]

InitEscalation ==
    /\ pc = "escalation"
    /\ IsEscalationList(p_messages)
    /\ p_result = Pending
    /\ OtherIdle /\ SummaryIdle /\ CodeIdle /\ PhasesIdle

NextEscalation == DetectEscalationPattern

SpecEscalation == InitEscalation /\ [][NextEscalation]_vars

\* orders with a gap, as merge_messages leaves them
TopicOrders == {1, 2, 3, 10}

TopicTags ==
    { <<>>, <<"bug">>, <<"bug", "bug">>, <<"bug", "bug", "bug">>, <<"feature", "bug">> }

IsTopicList(msgs) ==
    \E n \in 0..MaxTopicMessages :
        \E ord \in [1..n -> TopicOrders] : \E tags \in [1..n -> TopicTags] :
            /\ \A k \in 1..(n - 1) : ord[k] < ord[k + 1]
            /\ msgs = [k \in 1..n |-> PMessage(ord[k], <<"Message">>, tags[k],
                                               NoTimestamp, 50)]

InitTopics ==
    /\ pc = "topics"
    /\ IsTopicList(p_messages)
    /\ p_result = Pending
    /\ OtherIdle /\ SummaryIdle /\ CodeIdle /\ PhasesIdle

NextTopics == DetectRecurringTopics

SpecTopics == InitTopics /\ [][NextTopics]_vars

\* two Fridays and a Saturday, a timestamp that does not parse and a message
\* with neither tag
TimingBodies ==
    { [tags |-> <<"decision">>, timestamp |-> Stamp(2)],
      [tags |-> <<"constraint">>, timestamp |-> StampZ(9)],
      [tags |-> <<"decision">>, timestamp |-> Stamp(3)],
      [tags |-> <<"decision">>, timestamp |-> <<"soon">>],
      [tags |-> <<"question">>, timestamp |-> Stamp(2)] }

\* seven decisions on the seven days from 2026-01-01 on
SevenWeekdays ==
    [k \in 1..7 |-> PMessage(k - 1, <<"Message">>, <<"decision">>, Stamp(k), 50)]

IsTimingList(msgs) ==
    \/ msgs = SevenWeekdays
    \/ \E n \in 0..MaxTimingMessages : \E body \in [1..n -> TimingBodies] :
          msgs = [k \in 1..n |-> PMessage(k, <<"Message">>, body[k].tags,
                                          body[k].timestamp, 50)]

InitTiming ==
    /\ pc = "timing"
    /\ IsTimingList(p_messages)
    /\ p_result = Pending
    /\ OtherIdle /\ SummaryIdle /\ CodeIdle /\ PhasesIdle

NextTiming == DetectTimingPatterns

SpecTiming == InitTiming /\ [][NextTiming]_vars

PatternBodies ==
    { [content |-> <<"Use Flask">>, tags |-> <<"decision">>,
       timestamp |-> Stamp(2), importance_score |-> 50],
      [content |-> <<"Actually", "use FastAPI">>, tags |-> <<"decision">>,
       timestamp |-> Stamp(9), importance_score |-> 70],
      [content |-> <<"Hello">>, tags |-> <<"decision">>,
       timestamp |-> NoTimestamp, importance_score |-> 60],
      [content |-> <<"Hello">>, tags |-> <<"constraint", "decision">>,
       timestamp |-> Stamp(3), importance_score |-> 80],
      [content |-> <<"Hello">>, tags |-> <<"question">>,
       timestamp |-> NoTimestamp, importance_score |-> 0] }

IsPatternList(msgs) ==
    \E n \in 0..MaxPatternMessages : \E body \in [1..n -> PatternBodies] :
        msgs = [k \in 1..n |-> PMessage(k, body[k].content, body[k].tags,
                                        body[k].timestamp, body[k].importance_score)]

InitPatterns ==
    /\ pc = "patterns"
    /\ IsPatternList(p_messages)
    /\ p_result = Pending
    /\ OtherIdle /\ SummaryIdle /\ CodeIdle /\ PhasesIdle

NextPatterns == DetectAllPatterns

SpecPatterns == InitPatterns /\ [][NextPatterns]_vars

----------------------------------------------------------------------------
(* The lists merged and the digests appended to *)

MergeBodies == [order : 1..3, content : { <<"First">>, <<"Second">> }]

IsMergeList(msgs) ==
    \E n \in 0..MaxMergeMessages : \E body \in [1..n -> MergeBodies] :
        msgs = [k \in 1..n |-> [order     |-> body[k].order,
                                role      |-> "user",
                                content   |-> body[k].content,
                                tags      |-> <<>>,
                                timestamp |-> NoTimestamp]]

DistinctOrders(msgs) ==
    \A a, b \in 1..Len(msgs) : a # b => msgs[a].order # msgs[b].order

InitMerge ==
    /\ pc = "merge"
    /\ IsMergeList(m_existing)
    /\ DistinctOrders(m_existing)
    /\ IsMergeList(m_new)
    /\ merged = <<>>
    /\ ParserIdle /\ ScoreIdle /\ FilterIdle /\ TimelineIdle /\ PatternsIdle /\ AppendIdle
    /\ SummaryIdle /\ CodeIdle /\ PhasesIdle

NextMerge == MergeMessages

SpecMerge == InitMerge /\ [][NextMerge]_vars

\* the digest that an append of "User:" / "Hello" to no file leaves
StoredDigest ==
    ThreadDigest([id |-> DigestStem, title |-> <<"Hello">>],
                 <<[order     |-> 1,
                    role      |-> "user",
                    content   |-> <<"Hello">>,
                    tags      |-> <<>>,
                    timestamp |-> NoTimestamp]>>)

InitAppend ==
    /\ pc = "append"
    /\ digest_file \in {MissingFile, GarbageFile, StoredDigest}
    /\ a_existing = NoDigest
    /\ a_new = <<>>
    /\ a_returned = NoDigest
    /\ appends = 0
    /\ ParserIdle /\ ScoreIdle /\ FilterIdle /\ TimelineIdle /\ PatternsIdle /\ MergeIdle
    /\ SummaryIdle /\ CodeIdle /\ PhasesIdle

NextAppend ==
    \/ AppendBegin
    \/ Begin
    \/ DateLine
    \/ SpeakerLine
    \/ ContentLine
    \/ Finish
    \/ AppendFinish

SpecAppend == InitAppend /\ [][NextAppend]_vars

----------------------------------------------------------------------------
(* The messages summarised, searched for code and split into phases *)

SummaryBodies ==
    { [content |-> <<"Hello">>, tags |-> <<>>],
      [content |-> <<"SP", "Hello", "SP", "NL", "NL", "Will", "SP", "reset", "SP", "why?">>,
       tags |-> <<>>],
      [content |-> <<"TODO", "SP", "must", "NL", "Hello">>, tags |-> <<>>],
      [content |-> <<"need", "SP", "todo", "NL", "TODO", "SP", "must">>, tags |-> <<>>],
      [content |-> <<"-", "SP", "[x]", "SP", "will">>, tags |-> <<>>],
      [content |-> <<"todo", "SP", "must", "NL", "TODO", "SP", "must">>, tags |-> <<>>],
      [content |-> <<"Create", "SP", "app.py:", "NL", "FENCEpython", "NL", "v1", "NL", "FENCE">>,
       tags |-> <<"code">>],
      [content |-> <<"NL", "SP">>, tags |-> <<>>] }

IsSummaryList(msgs) ==
    \E n \in 0..MaxSummaryMessages : \E body \in [1..n -> SummaryBodies] :
        msgs = [k \in 1..n |-> [order   |-> k,
                                role    |-> "user",
                                content |-> body[k].content,
                                tags    |-> body[k].tags]]

\* a dict of signals passed by the caller
GivenSignals ==
    [decisions |-> << <<"Use", "SP", "Flask">> >>, actions |-> <<>>,
     open_questions |-> <<>>, constraints |-> <<>>]

InitSignals ==
    /\ pc = "signals"
    /\ IsSummaryList(g_messages)
    /\ g_signals = NoSignals
    /\ llm_model = None /\ max_brief_words = 180 /\ llm_reply = None /\ llm_calls = 0
    /\ g_result = Pending
    /\ OtherIdle /\ PatternsIdle /\ CodeIdle /\ PhasesIdle

NextSignals == ExtractSignals

SpecSignals == InitSignals /\ [][NextSignals]_vars

InitSummary ==
    /\ pc = "summary"
    /\ IsSummaryList(g_messages)
    /\ g_signals \in {NoSignals, GivenSignals}
    /\ llm_model \in {None, "", "llama3"}
    /\ max_brief_words \in {3, 180}
    /\ llm_reply = None /\ llm_calls = 0
    /\ g_result = Pending
    /\ OtherIdle /\ PatternsIdle /\ CodeIdle /\ PhasesIdle

NextSummary ==
    \/ GenerateSummary
    \/ TryLlmBrief

SpecSummary == InitSummary /\ [][NextSummary]_vars

CodeBodies ==
    { [content |-> <<"Create", "SP", "app.py:", "NL", "FENCEpython", "NL", "v1", "NL", "FENCE">>,
       tags |-> <<"code">>],
      [content |-> <<"Update", "SP", "app.py:", "NL", "FENCEpython", "NL", "v2", "NL", "FENCE">>,
       tags |-> <<"code">>],
      [content |-> <<"Update", "SP", "app.py:", "NL", "FENCEpython", "NL", "v2", "NL", "FENCE">>,
       tags |-> <<>>],
      [content |-> <<"Done.", "SP", "See", "SP", "main.py", "NL", "FENCE", "NL", "v3", "FENCE">>,
       tags |-> <<"code">>],
      [content |-> <<"FENCEpython", "NL", "v4", "NL", "FENCE">>, tags |-> <<"code">>],
      [content |-> <<"app.py:", "SP", "Done.", "NL", "FENCE", "NL", "v5", "NL", "FENCE", "NL",
                     "main.py", "NL", "FENCEpython", "NL", "v6", "NL", "FENCE">>,
       tags |-> <<"code">>] }

IsCodeList(msgs) ==
    \E n \in 0..MaxCodeMessages :
        \E ord \in Arrangements(n) : \E body \in [1..n -> CodeBodies] :
            msgs = [k \in 1..n |-> [order   |-> ord[k],
                                    role    |-> "assistant",
                                    content |-> body[k].content,
                                    tags    |-> body[k].tags]]

InitCode ==
    /\ pc = "code"
    /\ IsCodeList(c_messages)
    /\ c_result = NoFiles
    /\ OtherIdle /\ PatternsIdle /\ SummaryIdle /\ PhasesIdle

NextCode == ExtractLatestCodeByFile

SpecCode == InitCode /\ [][NextCode]_vars

PhaseTags ==
    { <<>>, <<"question">>, <<"decision">>, <<"code">>, <<"code", "decision">>, <<"action">> }

IsPhaseList(msgs) ==
    \E n \in 0..MaxPhaseMessages : \E tags \in [1..n -> PhaseTags] :
        msgs = [k \in 1..n |-> [order   |-> k,
                                role    |-> "user",
                                content |-> <<"Message">>,
                                tags    |-> tags[k]]]

InitPhases ==
    /\ pc = "phases"
    /\ IsPhaseList(h_messages)
    /\ phases = <<>>
    /\ OtherIdle /\ PatternsIdle /\ SummaryIdle /\ CodeIdle

NextPhases == GetConversationPhases

SpecPhases == InitPhases /\ [][NextPhases]_vars

----------------------------------------------------------------------------
(* What the claims speak of, read off the input lines *)

IsDateLine(l) == DateMatch(strip(l))

IsMarkerLine(l) == ~IsDateLine(l) /\ SpeakerMatch(strip(l))

MarkerPositions == { j \in 1..Len(lines) : IsMarkerLine(lines[j]) }

\* the first marker at or after position j, Len(lines) + 1 if there is none
RECURSIVE MarkerFrom(_)
MarkerFrom(j) ==
    IF j > Len(lines) THEN Len(lines) + 1
    ELSE IF IsMarkerLine(lines[j]) THEN j
    ELSE MarkerFrom(j + 1)

\* the non-date lines at positions lo..hi, right-trimmed if trim
RECURSIVE SegmentLines(_, _, _)
SegmentLines(lo, hi, trim) ==
    IF lo > hi THEN <<>>
    ELSE (IF IsDateLine(lines[lo]) THEN <<>>
          ELSE <<IF trim THEN rstrip(lines[lo]) ELSE lines[lo]>>)
         \o SegmentLines(lo + 1, hi, trim)

\* role and content of the messages the marker segments from position j on yield
RECURSIVE ExpectedFrom(_, _)
ExpectedFrom(j, trim) ==
    LET m == MarkerFrom(j) IN
    IF m > Len(lines) THEN <<>>
    ELSE LET content == strip(join(SegmentLines(m + 1, MarkerFrom(m + 1) - 1, trim)))
         IN  (IF content # <<>>
              THEN <<[role    |-> RoleOf(AfterHeading(strip(lines[m]))[1]),
                      content |-> content]>>
              ELSE <<>>)
             \o ExpectedFrom(m + 1, trim)

RoleAndContent ==
    [k \in 1..Len(messages) |-> [role |-> messages[k].role,
                                 content |-> messages[k].content]]

ExampleText == <<"User:", "NL", "Hello", "NL", "Assistant:", "NL", "Hi there">>

ExampleHolds ==
    (pass = 1 /\ text = ExampleText) =>
        /\ Len(messages) = 2
        /\ messages[1].order = 1 /\ messages[1].role = "user"
        /\ messages[1].content = <<"Hello">>
        /\ messages[2].order = 2 /\ messages[2].role = "assistant"
        /\ messages[2].content = <<"Hi there">>

----------------------------------------------------------------------------
(* The claims *)

\* C1: the messages of parse_transcript carry the orders 1, 2, ..., n in list
\* position, at every point of the parse and for every filename; a segment that
\* is empty after trimming consumes no order number, so the counter is always
\* one more than the number of messages.
C1_OrdersGapFree ==
    /\ \A k \in 1..Len(messages) : messages[k].order = k
    /\ pc \in {"loop", "done"} => order = Len(messages) + 1

\* a finished parse with a message and with a marker whose segment was empty
C1_Witness ==
    /\ pc = "done" /\ pass = 1
    /\ Len(messages) >= 1
    /\ Cardinality(MarkerPositions) > Len(messages)

\* C2: an empty transcript and a transcript without a speaker marker parse to
\* the empty list, and no line before the first speaker marker is part of any
\* message's content.
C2_PreambleDiscarded ==
    LET firstMarker == MarkerFrom(1) IN
    /\ (pc = "done" /\ firstMarker > Len(lines)) => messages = <<>>
    /\ \A k \in 1..Len(origin) :
          \A j \in 1..Len(origin[k]) : origin[k][j] > firstMarker
    /\ \A j \in 1..Len(bufsrc) : bufsrc[j] > firstMarker

\* a finished parse that emitted a message from a text with words before the
\* first marker
C2_Witness ==
    /\ pc = "done" /\ pass = 1
    /\ messages # <<>>
    /\ MarkerFrom(1) > 1
    /\ \E j \in 1..(MarkerFrom(1) - 1) : ~IsDateLine(lines[j]) /\ strip(lines[j]) # <<>>

\* C3 as stated: every message has the role mapped from its marker and, as
\* content, the trimmed newline-join of the non-date lines up to the next marker.
C3_RoleAndContentOfRawLines ==
    pc = "done" => (RoleAndContent = ExpectedFrom(1, FALSE) /\ ExampleHolds)

\* C3 as amended: the same with every line right-trimmed before the join.
C3_RoleAndContentOfTrimmedLines ==
    pc = "done" => (RoleAndContent = ExpectedFrom(1, TRUE) /\ ExampleHolds)

\* a finished parse of two messages of different roles, one of them with a line
\* that had blanks around it
C3_Witness ==
    /\ pc = "done" /\ pass = 1
    /\ Len(messages) = 2
    /\ messages[1].role # messages[2].role
    /\ \E j \in 1..Len(lines) :
          /\ j > MarkerFrom(1) /\ ~IsMarkerLine(lines[j]) /\ ~IsDateLine(lines[j])
          /\ strip(lines[j]) # lines[j]

\* C4: the messages written back, a marker line for the role and then the
\* content, parse to as many messages with the same roles in the same order.
C4_ReparseKeepsRoles ==
    (pc = "done" /\ pass = 2) =>
        /\ Len(messages) = Len(first)
        /\ \A k \in 1..Len(first) : messages[k].role = first[k].role

\* a second parse finished on a text that had given two messages of different
\* roles, one of them under a heading marker
C4_Witness ==
    /\ pc = "done" /\ pass = 2
    /\ Len(first) >= 2
    /\ first[1].role # first[2].role
    /\ \E k \in 1..Len(first) : first[k].role = "unknown"

\* the date a date line states, for the date tokens that state one
StatedDate(tok) ==
    CASE tok = "1/2/26"           -> datetime(2026, 1, 2)
      [] tok = "3/4/2027"         -> datetime(2027, 3, 4)
      [] tok = "January 5, 2026"  -> datetime(2026, 1, 5)
      [] tok = "Date: 2026-01-05" -> datetime(2026, 1, 5)
      [] tok = "Date: 01/05/2026" -> datetime(2026, 1, 5)
      [] OTHER                    -> NoDatetime

DateTokenOf(l) == AfterHeading(strip(l))[1]

\* the position at which message k was flushed: the marker after its content,
\* or the end of the text
FlushPosition(k) == MarkerFrom(origin[k][Len(origin[k])] + 1)

\* the last date line before position f, 0 if there is none
LastDateBefore(f) ==
    IF \E j \in 1..(f - 1) : j <= Len(lines) /\ IsDateLine(lines[j])
    THEN CHOOSE j \in 1..(f - 1) :
            /\ j <= Len(lines) /\ IsDateLine(lines[j])
            /\ \A j2 \in (j + 1)..(f - 1) : j2 <= Len(lines) => ~IsDateLine(lines[j2])
    ELSE 0

\* C5: every date line, in each of the three forms of the date pattern, sets
\* the current timestamp, so every message flushed after it (and before a later
\* date line) carries its date; no date line is part of a message's content.
C5_EveryDateFormSetsTimestamp ==
    pc = "done" =>
        \A k \in 1..Len(messages) :
            /\ \A j \in 1..Len(origin[k]) : ~IsDateLine(lines[origin[k][j]])
            /\ LET d == LastDateBefore(FlushPosition(k)) IN
               (d # 0 /\ StatedDate(DateTokenOf(lines[d])) # NoDatetime) =>
                   messages[k].timestamp = isoformat(StatedDate(DateTokenOf(lines[d])))

\* C6: score_message_importance returns a value in [0, 10] for every role, tag
\* list (repeated and unknown tags included), content length and number of '?'.
C6_ScoreInRange ==
    /\ s_score # Unscored => (0 <= s_score /\ s_score <= 100)
    /\ s_plain # Unscored => (0 <= s_plain /\ s_plain <= 100)
    /\ s_tagged # Unscored => (0 <= s_tagged /\ s_tagged <= 100)

\* a message scored 10 whose weights add up to more than 10: an assistant
\* message with a repeated tag and five question marks
C6_Witness ==
    /\ pc = "scored"
    /\ s_score = 100
    /\ s_message.role = "assistant"
    /\ Len(s_message.tags) = 2 /\ s_message.tags[1] = s_message.tags[2]
    /\ s_message.content.q >= 5

\* C7: with the tags code and decision a message scores strictly higher than
\* the same role and content without tags, also where the clamp applies.
C7_TaggedScoresHigher ==
    pc = "compared" => s_tagged > s_plain

\* a comparison in which the tagged score was clamped to 10
C7_Witness ==
    /\ pc = "compared"
    /\ s_tagged = 100
    /\ BaseScore + RoleWeight(s_message.role) + 35
       + LengthAdjust(len(s_message.content)) + QuestionBoost(s_message.content) > 100

IsOk(content) == lower_strip(content) = Exactly("ok")

\* C8 as stated: a message whose trimmed, lowercased content is "ok" scores
\* below 5.0 for every role and every tag list.
C8_OkScoresBelowFive ==
    (s_score # Unscored /\ IsOk(s_message.content)) => s_score < 50

\* C8 as amended: it scores below 5.0 for every role when the weights of its
\* tags add up to less than 1.0.
C8_OkWithLightTagsScoresBelowFive ==
    (s_score # Unscored /\ IsOk(s_message.content) /\ TagSum(s_message.tags) < 10)
        => s_score < 50

\* an assistant's "ok" between blanks, 103 characters long, with a question tag
C8_Witness ==
    /\ pc = "scored"
    /\ IsOk(s_message.content)
    /\ s_message.role = "assistant"
    /\ s_message.content.trail = 100
    /\ s_message.tags = <<"question">>
    /\ s_score = 48

\* C9: when a max_count is passed, filter_important_messages returns at most
\* max_count messages; all of them score at least min_score and they are in
\* ascending order of their order field.
C9_FilterRespectsCap ==
    pc = "filtered" =>
        /\ max_count # NoCount => Len(important) <= max_count
        /\ \A k \in 1..Len(important) :
              score_message_importance(important[k]) >= min_score
        /\ \A k \in 1..(Len(important) - 1) : important[k].order <= important[k + 1].order

\* whether the message the event at position j was extracted from holds a keyword
SourceHasKeyword(j) ==
    \E m \in 1..Len(t_messages) :
        /\ t_messages[m].order = events[j].message_order
        /\ HasKeyword(t_messages[m].content)

QualifyingAfter(i) ==
    { j \in (i + 1)..Len(events) :
        events[j].event_type = "decision" /\ SourceHasKeyword(j) }

\* C10: a superseded decision event carries the message_order of the first
\* decision event after it whose source message holds a supersession keyword,
\* and of no further one.
C10_FirstQualifyingSupersedes ==
    pc = "detected" =>
        \A i \in 1..Len(events) :
            (events[i].event_type = "decision" /\ events[i].superseded_by # NoOrder) =>
                \E j \in QualifyingAfter(i) :
                    /\ \A j2 \in QualifyingAfter(i) : j <= j2
                    /\ events[i].superseded_by = events[j].message_order

\* a superseded decision event with two qualifying decision events after it
C10_Witness ==
    /\ pc = "detected"
    /\ \E i \in 1..Len(events) :
          /\ events[i].event_type = "decision"
          /\ events[i].superseded_by # NoOrder
          /\ Cardinality(QualifyingAfter(i)) >= 2

----------------------------------------------------------------------------
(* What the claims speak of, read off the messages given to a detector *)

TaggedDecision(k) == Contains(p_messages[k].tags, "decision")

\* the messages whose decision is superseded: a later message tagged
\* decision holds a supersession keyword
SupersededMessages ==
    { i \in 1..Len(p_messages) :
        /\ TaggedDecision(i)
        /\ \E j \in (i + 1)..Len(p_messages) :
               TaggedDecision(j) /\ HasKeyword(p_messages[j].content) }

\* the datetimes of those of them whose timestamp parses, in message order
SupersededDatetimes ==
    ParsedTimestamps([r \in 1..Cardinality(SupersededMessages) |->
                         p_messages[InOrder(SupersededMessages)[r]].timestamp])

\* the positions of SupersededDatetimes that lie a positive number of days
\* after the position before
PositiveGaps ==
    { i \in 2..Len(SupersededDatetimes) :
        toordinal(SupersededDatetimes[i]) > toordinal(SupersededDatetimes[i - 1]) }

\* C11: detect_promise_break_cycles returns None, and raises nothing, for
\* every message list that yields fewer than 3 superseded decision events.
C11_FewSupersededReturnsNone ==
    (pc = "promise_done" /\ Cardinality(SupersededMessages) < 3) =>
        p_result = Returned(NoPattern)

\* two superseded decisions among three dated decisions that lie days apart
C11_Witness ==
    /\ pc = "promise_done"
    /\ Cardinality(SupersededMessages) = 2
    /\ Len(p_messages) = 3
    /\ \A k \in 1..3 : TaggedDecision(k)
    /\ Len(ParsedTimestamps([k \in 1..3 |-> p_messages[k].timestamp])) = 3
    /\ PositiveGaps # {}
    /\ p_result = Returned(NoPattern)

\* C12: for every message list that yields at least 3 superseded decision
\* events with parseable timestamps and at least one positive consecutive day
\* gap, detect_promise_break_cycles returns a Pattern of type
\* promise_break_cycle whose confidence lies in [0.70, 0.98] (0.75 when there
\* is exactly one positive gap) and whose frequency is the number of
\* superseded events.
C12_EnoughSupersededReturnsPattern ==
    (/\ pc = "promise_done"
     /\ Len(SupersededDatetimes) >= 3
     /\ PositiveGaps # {}) =>
        /\ p_result.outcome = "returned"
        /\ p_result.value.pattern_type = "promise_break_cycle"
        /\ FracLe(Frac(70, 100), p_result.value.confidence)
        /\ FracLe(p_result.value.confidence, Frac(98, 100))
        /\ Cardinality(PositiveGaps) = 1 =>
               FracEq(p_result.value.confidence, Frac(75, 100))
        /\ p_result.value.frequency = Cardinality(SupersededMessages)

\* C13: for every well-typed message list, detect_all_patterns completes
\* without raising and returns a list of Patterns: a detector whose threshold
\* is unmet or whose timestamps do not parse contributes nothing, and the
\* other detectors still contribute their results.
C13_AllPatternsNeverRaises ==
    pc = "patterns_done" =>
        /\ p_result.outcome = "returned"
        /\ Len(p_result.value) = Len(emitted_patterns(p_messages))
        /\ \A k \in 1..Len(emitted_patterns(p_messages)) :
               \E j \in 1..Len(p_result.value) :
                   p_result.value[j] = emitted_patterns(p_messages)[k]

\* the messages that carry a tag
Carriers(tag) == { k \in 1..Len(p_messages) : Contains(p_messages[k].tags, tag) }

\* max order minus min order of a non-empty set of messages
OrderSpan(set) ==
    LET orders == { p_messages[k].order : k \in set } IN
    (CHOOSE hi \in orders : \A x \in orders : x <= hi)
    - (CHOOSE lo \in orders : \A x \in orders : lo <= x)

\* C14: detect_recurring_topics never reports a tag whose occurrences are
\* confined to less than half of the conversation's message-order span: the
\* span of the orders of the tag's messages is never less than half of the
\* span of the orders of all messages, whatever the count of the tag, gaps
\* in the orders and repeats of a tag inside one message included.
C14_NoTopicConfinedToHalfSpan ==
    pc = "topics_done" =>
        \A k \in 1..Len(p_result.value) :
            ~ (2 * OrderSpan(Carriers(p_result.value[k].evidence[1]))
                   < OrderSpan(1..Len(p_messages)))

\* the weekdays of the messages tagged decision or constraint whose
\* timestamp parses
TimedDays ==
    LET timed == SelectSeq(p_messages,
                           LAMBDA m : /\ \E t \in {"decision", "constraint"} :
                                             Contains(m.tags, t)
                                      /\ m.timestamp # NoTimestamp
                                      /\ fromisoformat(ReplaceZ(m.timestamp)) # NoParse)
    IN  [k \in 1..Len(timed) |-> weekday(fromisoformat(ReplaceZ(timed[k].timestamp)))]

\* how many of the days fall on the weekday that most of them fall on
TopDayCount(days) ==
    LET count == [d \in 0..6 |-> Cardinality({ k \in 1..Len(days) : days[k] = d })] IN
    CHOOSE c \in 0..Len(days) :
        /\ \E d \in 0..6 : count[d] = c
        /\ \A d \in 0..6 : count[d] <= c

ScoredMessages == SelectSeq(p_messages, LAMBDA m : m.importance_score > 0)

\* C16: detect_escalation_pattern returns a Pattern only when at least 5
\* messages carry an importance score, at least 3 window means exist, the
\* share of window-to-window increases is at least 0.6 and the last window
\* mean is at least 10% above the first; the confidence returned is that
\* share and lies in [0.6, 1.0].  Ten messages with scores rising from 5.0 to
\* 9.5 yield a pattern of confidence above 0.6, ten equal scores yield None.
C16_EscalationOnlyOnRisingTrend ==
    pc = "escalation_done" =>
        LET means == windows_of(ScoredMessages, Max(1, Len(ScoredMessages) \div 4))
            rises == Cardinality({ i \in 2..Len(means) :
                                     means[i][1] * means[i - 1][2]
                                         > means[i - 1][1] * means[i][2] })
            first_mean == means[1]
            last_mean  == means[Len(means)]
        IN  /\ p_result.outcome = "returned"
            /\ p_result.value # NoPattern =>
                   /\ p_result.value.pattern_type = "escalation"
                   /\ Len(ScoredMessages) >= 5
                   /\ Len(means) >= 3
                   /\ 10 * rises >= 6 * (Len(means) - 1)
                   /\ 10 * last_mean[1] * first_mean[2]
                          >= 11 * first_mean[1] * last_mean[2]
                   /\ FracEq(p_result.value.confidence, Frac(rises, Len(means) - 1))
                   /\ FracLe(Frac(6, 10), p_result.value.confidence)
                   /\ FracLe(p_result.value.confidence, Frac(1, 1))
            /\ p_messages = LinearExample =>
                   /\ p_result.value # NoPattern
                   /\ FracLt(Frac(6, 10), p_result.value.confidence)
            /\ p_messages = FlatExample => p_result.value = NoPattern

\* six scored messages of which three of the five steps rise, the last score
\* being exactly a tenth above the first
C16_Witness ==
    /\ pc = "escalation_done"
    /\ Len(ScoredMessages) = 6
    /\ p_result.value # NoPattern
    /\ p_result.value.confidence = Frac(3, 5)
    /\ p_result.value.frequency = 6
    /\ p_messages[1].importance_score = 50
    /\ p_messages[6].importance_score = 55

\* where a tag is met first: the message and, within it, the place
FirstMet(tag) ==
    LET at == CHOOSE k \in Carriers(tag) : \A j \in Carriers(tag) : k <= j
        in == CHOOSE i \in 1..Len(p_messages[at].tags) :
                  /\ p_messages[at].tags[i] = tag
                  /\ \A j \in 1..(i - 1) : p_messages[at].tags[j] # tag
    IN  100 * at + in

\* the place of a pattern in the order the detectors emit: promise-break,
\* escalation, recurring topics by first occurrence of the tag, timing
EmissionRank(p) ==
    CASE p.pattern_type = "promise_break_cycle" -> 0
      [] p.pattern_type = "escalation"          -> 1
      [] p.pattern_type = "recurring_topic"     -> 2 + FirstMet(p.evidence[1])
      [] p.pattern_type = "timing_pattern"      -> 100000

\* C17: the list returned by detect_all_patterns is sorted by confidence in
\* non-increasing order, and patterns of equal confidence keep the order in
\* which the detectors emit them: promise-break, escalation, recurring topics
\* in tag first-occurrence order, timing.
C17_SortedByConfidenceStable ==
    (pc = "patterns_done" /\ p_result.outcome = "returned") =>
        \A i, j \in 1..Len(p_result.value) :
            i < j =>
                /\ FracLe(p_result.value[j].confidence, p_result.value[i].confidence)
                /\ FracEq(p_result.value[j].confidence, p_result.value[i].confidence)
                       => EmissionRank(p_result.value[i]) < EmissionRank(p_result.value[j])

\* two topics and a timing pattern of one confidence
C17_Witness ==
    /\ pc = "patterns_done"
    /\ p_result.outcome = "returned"
    /\ Len(p_result.value) >= 3
    /\ \E i \in 1..(Len(p_result.value) - 2) :
           /\ p_result.value[i].pattern_type = "recurring_topic"
           /\ p_result.value[i + 1].pattern_type = "recurring_topic"
           /\ p_result.value[i + 2].pattern_type = "timing_pattern"
           /\ p_result.value[i].confidence = p_result.value[i + 2].confidence

\* C18: after any sequence of TimelineEvent constructions, extract_timeline
\* calls and detect_supersessions calls, every TimelineEvent has is_current
\* true exactly when its superseded_by is None.
C18_CurrentIffNotSuperseded ==
    \A k \in 1..Len(events) :
        events[k].is_current = (events[k].superseded_by = NoOrder)

\* an event constructed as superseded, an event that detect_supersessions
\* marked and an event that is current
C18_Witness ==
    /\ pc = "events"
    /\ \E k \in 1..Len(events) : events[k].superseded_by = 7 /\ ~ events[k].is_current
    /\ \E k \in 1..Len(events) : events[k].superseded_by = 2 /\ ~ events[k].is_current
    /\ \E k \in 1..Len(events) : events[k].superseded_by = NoOrder /\ events[k].is_current

\* C19: for every existing list with pairwise distinct orders and every new
\* list, merge_messages returns a list sorted ascending by order in which no
\* order value occurs twice, containing every existing message unchanged (the
\* existing message wins on an order collision) and every new message whose
\* order is not already present.
C19_MergeSortedWithoutDuplicates ==
    pc = "merged" =>
        /\ \A a, b \in 1..Len(merged) : a < b => merged[a].order <= merged[b].order
        /\ \A a, b \in 1..Len(merged) : a # b => merged[a].order # merged[b].order
        /\ \A k \in 1..Len(m_existing) :
               \E a \in 1..Len(merged) : merged[a] = m_existing[k]
        /\ \A k \in 1..Len(m_new) :
               (\A j \in 1..Len(m_existing) : m_existing[j].order # m_new[k].order)
                   => \E a \in 1..Len(merged) : merged[a] = m_new[k]

\* C20: append_to_digest_file appends: when the file holds a valid digest
\* with n messages and the new transcript parses into k messages, the digest
\* returned and written has n + k messages, the n existing ones followed by
\* the k new ones, with the thread metadata unchanged; after any sequence of
\* appends no stored message is lost and no appended message is dropped.
C20_AppendKeepsAllMessages ==
    (pc = "append" /\ appends > 0 /\ a_existing # NoDigest) =>
        /\ digest_file = a_returned
        /\ a_returned.thread = a_existing.thread
        /\ Len(a_returned.messages) = Len(a_existing.messages) + Len(a_new)
        /\ \A k \in 1..Len(a_existing.messages) :
               a_returned.messages[k] = a_existing.messages[k]
        /\ \A k \in 1..Len(a_new) :
               \E j \in 1..Len(a_returned.messages) :
                   a_returned.messages[j].content = a_new[k].content

\* C30: every message of parse_transcript, at every point of the parse, has a
\* role among user, assistant and system and a content that is not empty; the
\* role unknown is never emitted.
C30_RolesKnownContentNonEmpty ==
    \A k \in 1..Len(messages) :
        /\ messages[k].role \in {"user", "assistant", "system"}
        /\ messages[k].content # <<>>

\* the positions of the decision events whose source message, the message of
\* the event's order, holds a supersession keyword
KeywordDecisions ==
    { j \in 1..Len(events) :
        /\ events[j].event_type = "decision"
        /\ \E m \in 1..Len(t_messages) :
               /\ t_messages[m].order = events[j].message_order
               /\ HasKeyword(t_messages[m].content) }

\* C29: after detect_supersessions on a freshly extracted timeline whose
\* messages have distinct orders, a decision event is superseded if and only
\* if a decision event later in the list comes from a message holding a
\* supersession keyword; the current decisions are exactly those from the last
\* keyword-bearing decision event onward, and the last decision event is
\* current.
C29_SupersededIffLaterKeywordDecision ==
    pc = "detected" =>
        LET D == { k \in 1..Len(events) : events[k].event_type = "decision" }
            K == KeywordDecisions
        IN  /\ \A i \in D : (events[i].superseded_by # NoOrder) <=> (\E j \in K : j > i)
            /\ \A i \in D : (~ events[i].is_current) <=> (\E j \in K : j > i)
            /\ K # {} => \A i \in D : events[i].is_current <=> (\A j \in K : j <= i)
            /\ \A i \in D : (\A j \in D : j <= i) => events[i].is_current

\* a superseded decision, the keyword-bearing decision after it which is the
\* last such, and a current decision after that one
C29_Witness ==
    /\ pc = "detected"
    /\ \E i, j, k \in 1..Len(events) :
          /\ i < j /\ j < k
          /\ events[i].event_type = "decision" /\ ~ events[i].is_current
          /\ j \in KeywordDecisions /\ events[j].is_current
          /\ events[k].event_type = "decision" /\ k \notin KeywordDecisions
          /\ events[k].is_current

C23_FourWindows ==
    (pc = "escalation_done" /\ Len(ScoredMessages) >= 5) =>
        LET means == windows_of(ScoredMessages, window_size_of(Len(ScoredMessages)))
        IN  /\ Len(means) = 4
            /\ p_result.value # NoPattern => p_result.value.frequency = 4

\* the positions of f_messages whose score meets min_score
Meeting == { p \in 1..Len(f_messages) : score_message_importance(f_messages[p]) >= min_score }

\* whether the message at position q goes before the one at position p in the
\* ranking: a higher score, or the same score at an earlier position
RanksBefore(q, p) ==
    \/ score_message_importance(f_messages[q]) > score_message_importance(f_messages[p])
    \/ /\ score_message_importance(f_messages[q]) = score_message_importance(f_messages[p])
       /\ q < p

\* the positions of the max_count first of Meeting in the ranking
TopMeeting ==
    { p \in Meeting : Cardinality({ q \in Meeting : RanksBefore(q, p) }) < max_count }

\* C27: when max_count truncates the result of filter_important_messages (a
\* max_count of at least 1 and more than max_count messages meeting min_score),
\* the messages kept are the max_count highest-scoring ones among those
\* meeting min_score, ties going to the earlier position of the input list, in
\* ascending order of their order field; no dropped message scores strictly
\* higher than a kept one.
C27_CapKeepsHighestScoring ==
    (pc = "filtered" /\ max_count >= 1 /\ Cardinality(Meeting) > max_count) =>
        /\ Len(important) = max_count
        /\ { important[k] : k \in 1..Len(important) } = { f_messages[p] : p \in TopMeeting }
        /\ \A k \in 1..(Len(important) - 1) : important[k].order < important[k + 1].order
        /\ \A p \in Meeting :
               (\A k \in 1..Len(important) : important[k] # f_messages[p]) =>
                   \A k \in 1..Len(important) :
                       score_message_importance(f_messages[p])
                           <= score_message_importance(important[k])

\* a truncation that cuts between two messages of the same score: the earlier
\* one of the input is kept, though its order is the higher, and a message of
\* a lower order is dropped
C27_Witness ==
    /\ pc = "filtered" /\ max_count >= 1 /\ Cardinality(Meeting) > max_count
    /\ \E p, q \in Meeting :
          /\ p < q
          /\ score_message_importance(f_messages[p]) = score_message_importance(f_messages[q])
          /\ f_messages[p].order > f_messages[q].order
          /\ \E k \in 1..Len(important) : important[k] = f_messages[p]
          /\ \A k \in 1..Len(important) : important[k] # f_messages[q]

----------------------------------------------------------------------------
(* What the claims speak of, read off the messages summarised *)

\* whether bucket lists, once each and in the order of their first
\* occurrence, the lines at the positions at of the lines ls
ListsOnceInOrder(bucket, ls, at) ==
    /\ \A i, j \in 1..Len(bucket) : i # j => bucket[i] # bucket[j]
    /\ { bucket[i] : i \in 1..Len(bucket) } = { ls[k] : k \in at }
    /\ \A i, j \in 1..Len(bucket) :
           i < j => \E k \in at : /\ ls[k] = bucket[i]
                                  /\ \A k2 \in at : ls[k2] = bucket[j] => k < k2

\* C22: each of the four lists returned by extract_signals holds no string
\* twice and lists the classified lines in the order of their first occurrence
\* across the messages; a line that passes several tests is in each bucket it
\* matches.
C22_BucketsDedupedInFirstSeenOrder ==
    pc = "signals_done" =>
        LET ls == signal_lines(g_messages)
            at(Test(_)) == { k \in 1..Len(ls) : Test(ls[k]) }
        IN  /\ ListsOnceInOrder(g_signals.decisions, ls, at(IsDecision))
            /\ ListsOnceInOrder(g_signals.actions, ls, at(IsAction))
            /\ ListsOnceInOrder(g_signals.open_questions, ls, at(IsOpenQuestion))
            /\ ListsOnceInOrder(g_signals.constraints, ls, at(IsConstraint))

\* a line that occurs twice and is both an action and a constraint, after
\* another action
C22_Witness ==
    /\ pc = "signals_done"
    /\ LET ls == signal_lines(g_messages) IN
       \E h, i, j \in 1..Len(ls) :
           /\ h < i /\ i < j
           /\ ls[i] = ls[j] /\ ls[h] # ls[i]
           /\ IsAction(ls[h]) /\ IsAction(ls[i]) /\ IsConstraint(ls[i])
    /\ Len(g_signals.actions) = 2

----------------------------------------------------------------------------
(* What the claims speak of, read off the messages searched for code *)

\* the blocks of the messages whose context mentions the file name
BlocksMentioning(file_name) ==
    LET blocks == extract_code_blocks(c_messages) IN
    { blocks[k] : k \in { j \in 1..Len(blocks) : FileMention(blocks[j].context) = file_name } }

\* the file names that the context of some block mentions
MentionedFiles ==
    LET blocks == extract_code_blocks(c_messages) IN
    { FileMention(blocks[k].context) : k \in 1..Len(blocks) } \ {None}

\* C28: extract_latest_code_by_file maps each file name that the context of
\* some code block mentions to a block of the highest message_order among the
\* blocks whose context mentions it, for every message list, also one with a
\* message of order 0.
C28_LatestBlockPerFile ==
    pc = "code_done" =>
        /\ DOMAIN c_result = MentionedFiles
        /\ \A file_name \in MentionedFiles :
               /\ c_result[file_name] \in BlocksMentioning(file_name)
               /\ \A block \in BlocksMentioning(file_name) :
                      block.message_order <= c_result[file_name].message_order

\* the replies of the endpoint that are failures of the language-model call:
\* no answer, an answer that is not 2xx, and a 2xx answer that is malformed
FailedReplies ==
    {"timeout", "connection_error", "status_500", "not_json", "not_json_old_requests",
     "json_list", "response_number"}

\* C21: when generate_summary is called with an llm_model, requests.post is
\* called exactly once; when the call fails (timeout, connection error, status
\* that is not 2xx, malformed response) no exception propagates and the brief
\* of the Summary returned is the rule-based brief; a successful response that
\* is not empty replaces the rule-based brief.
C21_LlmFailureFallsBackSilently ==
    (pc = "summary_done" /\ llm_model \notin {None, ""}) =>
        /\ llm_calls = 1
        /\ llm_reply \in FailedReplies =>
               /\ g_result.outcome = "returned"
               /\ g_result.value.brief =
                      build_rule_based_brief(g_messages, signals_of(g_messages, g_signals),
                                             max_brief_words)
        /\ llm_reply = "response_text" =>
               /\ g_result.outcome = "returned"
               /\ g_result.value.brief = <<"Handoff", "SP", "brief">>

----------------------------------------------------------------------------
(* What the claims speak of, read off the messages split into phases *)

\* the label of the message at index i, counted from 0
LabelAt(i) ==
    LET tags == h_messages[i + 1].tags IN
    IF Contains(tags, "question") \/ Contains(tags, "decision") THEN "planning"
    ELSE IF Contains(tags, "code") THEN "implementation"
    ELSE "discussion"

\* C24: the phases returned by get_conversation_phases are exactly the
\* maximal runs of consecutive messages with the same label (planning for a
\* question or decision tag, else implementation for a code tag, else
\* discussion): every message of a phase has the label the phase is typed
\* with, and a message whose label differs from that of the message before it
\* opens a new phase.
C24_PhasesAreMaximalRuns ==
    pc = "phases_done" =>
        /\ \A p \in 1..Len(phases) :
               \A i \in phases[p].start..phases[p].end : LabelAt(i) = phases[p].type
        /\ \A i \in 1..(Len(h_messages) - 1) :
               LabelAt(i) # LabelAt(i - 1) => \E p \in 1..Len(phases) : phases[p].start = i

\* C25: for every message list that is not empty the phases returned cover
\* the indexes 0..n-1 once each and in order: the first phase starts at 0,
\* each later phase starts at the end of the phase before plus 1, the last
\* phase ends at n-1, each phase has message_count = end - start + 1 > 0, and
\* adjacent phases have different types.
C25_PhasesCoverInOrder ==
    (pc = "phases_done" /\ h_messages # <<>>) =>
        /\ Len(phases) >= 1
        /\ phases[1].start = 0
        /\ phases[Len(phases)].end = Len(h_messages) - 1
        /\ \A p \in 1..Len(phases) :
               /\ phases[p].message_count = phases[p].end - phases[p].start + 1
               /\ phases[p].message_count > 0
        /\ \A p \in 2..Len(phases) :
               /\ phases[p].start = phases[p - 1].end + 1
               /\ phases[p].type # phases[p - 1].type

\* three phases, the first a discussion of one message and the last of more
\* than one message
C25_Witness ==
    /\ pc = "phases_done"
    /\ Len(h_messages) = 4
    /\ Len(phases) = 3
    /\ phases[1].type = "discussion"
    /\ phases[3].message_count = 2

====
